---- MODULE Spec2Model ----
(***************************************************************************)
(* Model of the file cache decorator of cache.py (simple_caching and the   *)
(* Writers / Readers it dispatches to), over an explicit file system.      *)
(*                                                                         *)
(* Python strings are sequences of one-character strings, so that          *)
(* concatenation, substring tests and the regular expression search of     *)
(* method_wrapper are computed and not assumed.  Python None is NoneVal.   *)
(* An optional keyword argument is a set: {} when the caller did not pass  *)
(* it, {v} when it was passed with value v.                                *)
(***************************************************************************)
EXTENDS Integers, Sequences, FiniteSets, TLC

\* ------------------------------------------------------------------------
\* Bounds of the model
\* ------------------------------------------------------------------------

\* number of calls of the decorated function in one behaviour
MaxCalls == 3

\* number of caching options one call passes as keywords
MaxKw == 1

\* ------------------------------------------------------------------------
\* Strings
\* ------------------------------------------------------------------------

NoneVal == <<"<None>">>

S_json == <<"j", "s", "o", "n">>
S_pickle == <<"p", "i", "c", "k", "l", "e">>
S_numpy == <<"n", "u", "m", "p", "y">>
S_xml == <<"x", "m", "l">>
S_gzip == <<"g", "z", "i", "p">>
S_gz == <<"g", "z">>
S_txt == <<"t", "x", "t">>
S_json_gz == <<"j", "s", "o", "n", ".", "g", "z">>
S_None == <<"N", "o", "n", "e">>
S_dotcache == <<".", "c", "a", "c", "h", "e", ".">>
S_dotgzip == <<".", "g", "z", "i", "p">>

\* sub in s
Contains(sub, s) ==
    \E i \in 1..(Len(s) - Len(sub) + 1) : SubSeq(s, i, i + Len(sub) - 1) = sub

\* '{}'.format(v)
Format(v) == IF v = NoneVal THEN S_None ELSE v

\* bool(v) of a string or None
Truthy(v) == v # NoneVal /\ v # <<>>

\* string.punctuation, as far as the names of the model use it
Punctuation == {"_", ".", "-"}

RECURSIVE LStrip(_)
LStrip(s) ==
    IF s # <<>> /\ Head(s) \in Punctuation THEN LStrip(Tail(s)) ELSE s

RECURSIVE RStrip(_)
RStrip(s) ==
    IF s # <<>> /\ s[Len(s)] \in Punctuation
    THEN RStrip(SubSeq(s, 1, Len(s) - 1))
    ELSE s

\* s.strip(string.punctuation)
Strip(s) == RStrip(LStrip(s))

\* os.path.join(a, b) for a relative b and an a without trailing separator
PathJoin(a, b) == a \o <<"/">> \o b

\* re.search(r'(json|pickle|numpy)', ext): the alternative matched at the
\* leftmost position, NoneVal when there is no match
FormatTokens == <<S_json, S_pickle, S_numpy>>

MatchAt(s, i) ==
    {k \in 1..Len(FormatTokens) :
        /\ i + Len(FormatTokens[k]) - 1 <= Len(s)
        /\ SubSeq(s, i, i + Len(FormatTokens[k]) - 1) = FormatTokens[k]}

SearchFormat(ext) ==
    LET hits == {i \in 1..Len(ext) : MatchAt(ext, i) # {}}
    IN  IF hits = {} THEN NoneVal
        ELSE LET i == CHOOSE j \in hits : \A h \in hits : j <= h
                 k == CHOOSE a \in MatchAt(ext, i) : \A b \in MatchAt(ext, i) : a <= b
             IN  FormatTokens[k]

\* ------------------------------------------------------------------------
\* Values and their serialisation
\* ------------------------------------------------------------------------

\* What the wrapped function may return: two lists, a tuple with the elements
\* of the first list, and a set (which json cannot dump and numpy cannot
\* save without pickling).  A1 and A2 are the numpy arrays of L1 and L2.
L1 == <<"L1">>
L2 == <<"L2">>
T1 == <<"T1">>
S1 == <<"S1">>
A1 == <<"A1">>
A2 == <<"A2">>

\* a list of two elements and its numpy array: their dumps are longer than
\* the dumps of L1 and L2 (bytes are kept in chunks of equal length)
L12 == <<"L1", "L2">>
A12 == <<"A1", "A2">>

Results == {L1, L2, T1, S1}

\* json.dumps(data): a tuple is dumped as a list; a set or an array is not
\* serialisable (TypeError)
JsonDumps(v) ==
    IF v \in {L1, T1} THEN [ok |-> TRUE, bytes |-> <<"[1]">>]
    ELSE IF v = L2 THEN [ok |-> TRUE, bytes |-> <<"[2]">>]
    ELSE IF v = L12 THEN [ok |-> TRUE, bytes |-> <<"[1,", " 2]">>]
    ELSE [ok |-> FALSE, bytes |-> <<>>]

\* json.loads(dump.decode('utf-8'))
JsonLoads(b) ==
    IF b = <<"[1]">> THEN [ok |-> TRUE, val |-> L1]
    ELSE IF b = <<"[2]">> THEN [ok |-> TRUE, val |-> L2]
    ELSE IF b = <<"[1,", " 2]">> THEN [ok |-> TRUE, val |-> L12]
    ELSE [ok |-> FALSE, val |-> <<>>]

\* pickle.dumps(data)
PickleDumps(v) == [ok |-> TRUE, bytes |-> <<"pkl">> \o v]

\* pickle.loads(dump)
PickleLoads(b) ==
    IF b # <<>> /\ Head(b) = "pkl" THEN [ok |-> TRUE, val |-> Tail(b)]
    ELSE [ok |-> FALSE, val |-> <<>>]

\* numpy.save(f, data, allow_pickle=False): lists and tuples are converted
\* to arrays; an object array (from a set) raises ValueError
NumpySave(v) ==
    IF v \in {L1, T1, A1} THEN [ok |-> TRUE, bytes |-> <<"npy[1]">>]
    ELSE IF v \in {L2, A2} THEN [ok |-> TRUE, bytes |-> <<"npy[2]">>]
    ELSE IF v \in {L12, A12} THEN [ok |-> TRUE, bytes |-> <<"npy[1,", " 2]">>]
    ELSE [ok |-> FALSE, bytes |-> <<>>]

\* numpy.load(f)
NumpyLoad(b) ==
    IF b = <<"npy[1]">> THEN [ok |-> TRUE, val |-> A1]
    ELSE IF b = <<"npy[2]">> THEN [ok |-> TRUE, val |-> A2]
    ELSE IF b = <<"npy[1,", " 2]">> THEN [ok |-> TRUE, val |-> A12]
    ELSE [ok |-> FALSE, val |-> <<>>]

\* names of the static methods of Writers and of Readers
WriterNames == {S_json, S_pickle, S_numpy}
ReaderNames == {S_json, S_pickle, S_numpy}

\* The dump a writer computes BEFORE its try block: json and pickle dump the
\* data first, numpy serialises inside the try block while writing.
DumpBeforeTry(fmt, v) ==
    IF fmt = S_json THEN JsonDumps(v)
    ELSE IF fmt = S_pickle THEN PickleDumps(v)
    ELSE [ok |-> TRUE, bytes |-> <<>>]

\* What the body of the with block writes into the opened file
WriteInTry(fmt, v, dump) ==
    IF fmt = S_numpy THEN NumpySave(v) ELSE [ok |-> TRUE, bytes |-> dump]

\* A file: the bytes written, whether they went through gzip, and whether the
\* write that produced them completed
FileOf(gz, bytes, complete) == [gz |-> gz, bytes |-> bytes, complete |-> complete]

\* open(filepath, 'wb') / gzip.open(filepath, 'wb') creates or truncates
EmptyFile(gz) == FileOf(gz, <<>>, FALSE)

\* Readers.<fmt>(filepath, io_handler) on an existing file: the io handler
\* must match the way the bytes were written, then the format decodes them
ReadFile(fmt, gz, file) ==
    IF file.gz # gz \/ ~file.complete THEN [ok |-> FALSE, val |-> <<>>]
    ELSE IF fmt = S_json THEN JsonLoads(file.bytes)
    ELSE IF fmt = S_pickle THEN PickleLoads(file.bytes)
    ELSE NumpyLoad(file.bytes)

\* _choose_writer: getattr(Writers, extension) raises TypeError for a name
\* that is not a string and AttributeError, turned into CacheError, for a
\* string that names no writer
_choose_writer(extension, compression) ==
    IF extension = NoneVal THEN [err |-> "TypeError", fmt |-> extension, gz |-> compression]
    ELSE IF extension \notin WriterNames
    THEN [err |-> "CacheError", fmt |-> extension, gz |-> compression]
    ELSE [err |-> "", fmt |-> extension, gz |-> compression]

\* _choose_reader
_choose_reader(extension, compression) ==
    IF extension = NoneVal THEN [err |-> "TypeError", fmt |-> extension, gz |-> compression]
    ELSE IF extension \notin ReaderNames
    THEN [err |-> "CacheError", fmt |-> extension, gz |-> compression]
    ELSE [err |-> "", fmt |-> extension, gz |-> compression]

\* callback(value): "id" is the identity lambda of caching_decorator
Apply(cb, v) == IF cb = "id" THEN v ELSE <<cb>> \o v

\* ------------------------------------------------------------------------
\* Decoration-time and call-time configuration
\* ------------------------------------------------------------------------

D1 == <<"d">>
MethodName == <<"f", "o", "o">>

\* simple_caching(...) with its keyword defaults
DefaultDeco ==
    [cachedir |-> NoneVal, cache_comment |-> NoneVal, invalidate |-> FALSE,
     cache_format |-> S_json, cache_compression |-> TRUE,
     callback_func_hit |-> "None", callback_func_miss |-> "None",
     quiet |-> FALSE, no_caching |-> FALSE, cache_name |-> NoneVal,
     cache_ext |-> NoneVal, method |-> MethodName]

\* The decorations of the model: the defaults, and a cache directory alone,
\* with invalidate, with no_caching and quiet, or with the pair of callbacks
Decorations ==
    {DefaultDeco,
     [DefaultDeco EXCEPT !.cachedir = D1],
     [DefaultDeco EXCEPT !.cachedir = D1, !.invalidate = TRUE],
     [DefaultDeco EXCEPT !.cachedir = D1, !.no_caching = TRUE,
                         !.quiet = TRUE],
     [DefaultDeco EXCEPT !.cachedir = D1, !.callback_func_miss = "f",
                         !.callback_func_hit = "g"]}

\* The caching options a call may pass as keywords ({} = not passed), and
\* the values the calls of the model pass
KwNames ==
    {"cachedir", "invalidate", "no_caching", "cache_name", "cache_comment",
     "callback_func_miss", "callback_func_hit", "cache_ext",
     "cache_compression", "cache_format", "quiet"}

KwSpace ==
    [cachedir : {{}, {D1}, {NoneVal}},
     invalidate : {{}, {TRUE}, {FALSE}},
     no_caching : {{}, {TRUE}, {FALSE}},
     cache_name : {{}},
     cache_comment : {{}},
     callback_func_miss : {{}},
     callback_func_hit : {{}},
     cache_ext : {{}, {S_json_gz}, {S_txt}},
     cache_compression : {{}},
     cache_format : {{}, {S_pickle}, {S_numpy}, {S_xml}},
     quiet : {{}, {TRUE}}]

\* the keywords a call passes
Passed(kw) == {k \in KwNames : kw[k] # {}}

KwChoices == {kw \in KwSpace : Cardinality(Passed(kw)) <= MaxKw}

\* The positional arguments of a call: none, a first argument without a
\* cachedir attribute, or a first argument whose cachedir attribute is attr
ArgChoices ==
    {[n |-> 0, attr |-> {}], [n |-> 1, attr |-> {}],
     [n |-> 1, attr |-> {D1}], [n |-> 1, attr |-> {NoneVal}]}

\* kwargs.pop(key, default)
Pop(opt, default) == IF opt = {} THEN default ELSE CHOOSE v \in opt : TRUE

\* args[0].cachedir raises IndexError or AttributeError
HasCachedirAttr(args) == args.n > 0 /\ args.attr # {}

\* The keyword looked up before the attribute
InnerCachedir_KeywordFirst(d, args, kw) ==
    IF kw.cachedir # {} THEN CHOOSE v \in kw.cachedir : TRUE
    ELSE IF HasCachedirAttr(args) THEN CHOOSE v \in args.attr : TRUE
    ELSE d.cachedir

\* lines 198-201: the cachedir attribute of the first positional argument,
\* else the keyword, else the decoration-time value
InnerCachedir(d, args, kw) ==
    IF HasCachedirAttr(args) THEN CHOOSE v \in args.attr : TRUE
    ELSE Pop(kw.cachedir, d.cachedir)

\* The comment part with the underscore also before an absent comment
InnerCacheComment_DanglingSeparator(d, kw) ==
    LET local == IF Truthy(d.cache_comment) THEN d.cache_comment ELSE <<>>
        inner == Pop(kw.cache_comment, local)
    IN  <<"_">> \o (IF inner = NoneVal THEN <<>> ELSE inner)

\* lines 178, 221-223, 237-240
InnerCacheComment(d, kw) ==
    LET local == IF Truthy(d.cache_comment) THEN d.cache_comment ELSE <<>>
        inner == Pop(kw.cache_comment, local)
    IN  IF Truthy(inner) THEN <<"_">> \o Format(inner) ELSE <<>>

\* lines 189-190, 224-229
LocalCallback(cb) == IF cb = "None" THEN "id" ELSE cb

\* line 250
InnerCacheExt(d, kw) == Pop(kw.cache_ext, d.cache_ext)

\* lines 256-260
InnerCacheCompression(d, kw) ==
    LET ext == InnerCacheExt(d, kw)
    IN  IF ext = NoneVal THEN Pop(kw.cache_compression, d.cache_compression)
        ELSE Contains(S_gzip, ext) \/ Contains(S_gz, ext)

\* lines 270-277
InnerCacheFormat(d, kw) ==
    LET ext == InnerCacheExt(d, kw)
    IN  IF ext = NoneVal THEN Pop(kw.cache_format, d.cache_format)
        ELSE SearchFormat(ext)

\* A file name without the format
CachePath_NoFormat(dir, method, cache_name, comment, fmt, compression) ==
    LET name == IF cache_name = NoneVal THEN Strip(method) ELSE cache_name
        cachename == name \o comment \o S_dotcache
                     \o (IF compression THEN S_dotgzip ELSE <<>>)
    IN  PathJoin(dir, cachename)

\* lines 279-290
CachePath(dir, method, cache_name, comment, fmt, compression) ==
    LET name == IF cache_name = NoneVal THEN Strip(method) ELSE cache_name
        cachename == name \o comment \o S_dotcache \o Format(fmt)
                     \o (IF compression THEN S_dotgzip ELSE <<>>)
    IN  PathJoin(dir, cachename)

\* The keywords still in kwargs when the wrapped function is called
ForwardedNoDir(args, kw) ==
    Passed(kw) \ (IF HasCachedirAttr(args) THEN {} ELSE {"cachedir"})

PoppedEarly ==
    {"invalidate", "no_caching", "cache_name", "cache_comment",
     "callback_func_miss", "callback_func_hit"}

ForwardedNoCaching(args, kw) == ForwardedNoDir(args, kw) \ PoppedEarly

ForwardedMiss(d, args, kw) ==
    ForwardedNoCaching(args, kw)
      \ ({"cache_ext"} \cup
         (IF InnerCacheExt(d, kw) = NoneVal
          THEN {"cache_compression", "cache_format"} ELSE {}))

\* lines 213, 232 and 307: the caching keywords method(*args, **kwargs)
\* receives on the path the call takes (a hit does not call the method; a
\* call that finds no file, or invalidates, takes line 307)
Forwarded(d, args, kw) ==
    IF ~Truthy(InnerCachedir(d, args, kw)) THEN ForwardedNoDir(args, kw)
    ELSE IF Pop(kw.no_caching, d.no_caching) THEN ForwardedNoCaching(args, kw)
    ELSE ForwardedMiss(d, args, kw)

\* What method_wrapper resolves for one call before it touches the file
\* system.  The fields of a bypassing call that the code never computes
\* are left at fixed values.
NoPath == <<>>

Resolve(d, args, kw) ==
    LET dir == InnerCachedir(d, args, kw)
        fmt == InnerCacheFormat(d, kw)
        gz == InnerCacheCompression(d, kw)
        base == [bypass |-> "", dir |-> NoPath, invalidate |-> FALSE,
                 cb_miss |-> "id", cb_hit |-> "id", fmt |-> NoneVal,
                 gz |-> FALSE, path |-> NoPath]
    IN  IF ~Truthy(dir)
        THEN [base EXCEPT !.bypass = "nodir"]
        ELSE IF Pop(kw.no_caching, d.no_caching)
        THEN [base EXCEPT !.bypass = "no_caching", !.dir = dir]
        ELSE [base EXCEPT
                !.dir = dir,
                !.invalidate = Pop(kw.invalidate, d.invalidate),
                !.cb_miss = Pop(kw.callback_func_miss,
                                LocalCallback(d.callback_func_miss)),
                !.cb_hit = Pop(kw.callback_func_hit,
                               LocalCallback(d.callback_func_hit)),
                !.fmt = fmt, !.gz = gz,
                !.path = CachePath(dir, d.method,
                                   Pop(kw.cache_name, d.cache_name),
                                   InnerCacheComment(d, kw), fmt, gz)]

\* ------------------------------------------------------------------------
\* State
\* ------------------------------------------------------------------------

Procs == {"p1", "p2"}

\* the callers of the sequential specification
SeqProcs == {"p1"}

VARIABLES
    dirs,       \* the directories that exist
    files,      \* the files that exist: path -> file
    deco,       \* the arguments simple_caching was given at decoration time
    pc,         \* per caller: its position in method_wrapper
    cfg,        \* per caller: what its current (or last) call resolved
    pend,       \* per caller: result of the wrapped function, dump, and the
                \* exception caught by the writer's except clause
    log,        \* per caller: what its current (or last) call did, in order
    ret,        \* per caller: how its last call ended
    prev,       \* per caller: summary of the call before the current one
    pre,        \* per caller: the file system when the current call began
    ncalls,     \* number of calls made so far
    stderr,     \* per caller: the messages its current (or last) call printed
    inp,        \* the arguments of a function applied on its own
    outp        \* the result of that function

\* the state of the decorator and of the file system
cvars == <<dirs, files, deco, pc, cfg, pend, log, ret, prev, pre, ncalls, stderr>>

vars == <<dirs, files, deco, pc, cfg, pend, log, ret, prev, pre, ncalls, stderr,
          inp, outp>>

\* no function has been applied on its own
NoInp == [op |-> "none"]
NoOutp == [op |-> "none"]

NoRet == [kind |-> "none", err |-> "", val |-> <<>>]
Return(v) == [kind |-> "return", err |-> "", val |-> v]
Raise(e, v) == [kind |-> "raise", err |-> e, val |-> v]

NoPend == [raw |-> <<>>, bytes |-> <<>>, err |-> ""]
NoPrev == [scope |-> "none", invalidate |-> FALSE, path |-> NoPath, raw |-> <<>>]

\* files with path set to file
PutFile(fs, path, file) ==
    [x \in DOMAIN fs \cup {path} |-> IF x = path THEN file ELSE fs[x]]

\* files without path
DelFile(fs, path) == [x \in DOMAIN fs \ {path} |-> fs[x]]

\* the state after the decoration d of the wrapped function, before any call
Decorated(d) ==
    /\ dirs = {}
    /\ files = <<>>
    /\ deco = d
    /\ pc = [p \in Procs |-> "idle"]
    /\ cfg = [p \in Procs |-> Resolve(DefaultDeco, [n |-> 0, attr |-> {}],
                                      CHOOSE kw \in KwChoices : Passed(kw) = {})]
    /\ pend = [p \in Procs |-> NoPend]
    /\ log = [p \in Procs |-> <<>>]
    /\ ret = [p \in Procs |-> NoRet]
    /\ prev = [p \in Procs |-> NoPrev]
    /\ pre = [p \in Procs |-> [dirs |-> {}, files |-> <<>>]]
    /\ ncalls = 0
    /\ stderr = [p \in Procs |-> <<>>]

Init ==
    /\ \E d \in Decorations : Decorated(d)
    /\ inp = NoInp
    /\ outp = NoOutp

\* the call of caller p has ended with r
Finish(p, r) ==
    /\ pc' = [pc EXCEPT ![p] = "idle"]
    /\ ret' = [ret EXCEPT ![p] = r]

Logged(p, op) == log' = [log EXCEPT ![p] = Append(@, op)]

\* ------------------------------------------------------------------------
\* method_wrapper, step by step
\* ------------------------------------------------------------------------

\* What the next call remembers of a caching call that resolved c, ended
\* with r and had pending state q: whether it returned or raised, its
\* invalidate flag and path, and the result of the wrapped function if it
\* ran and the call returned
Summary(c, r, q) ==
    IF r.kind = "none" \/ c.bypass # "" THEN NoPrev
    ELSE [scope |-> r.kind, invalidate |-> c.invalidate, path |-> c.path,
          raw |-> IF r.kind = "return" THEN q.raw ELSE <<>>]

\* line 180: quiet as method_wrapper reads it
LocalQuiet(d) == d.quiet

\* lines 206-212: the message of the call that finds no cache directory
NoDirNotice(d, c) ==
    IF c.bypass = "nodir" /\ ~LocalQuiet(d)
    THEN << <<"not_cached", d.method>> >> ELSE <<>>

\* lines 243-247: the message printed before os.makedirs
CreatingNotice(d, c) == << <<"creating", c.dir>> >>

\* lines 310-312: the message printed after the wrapped function returned
GeneratingNotice(d, c) ==
    IF ~LocalQuiet(d) THEN << <<"generating", c.path>> >> ELSE <<>>

\* method_wrapper without the early return of lines 205-213
AfterResolve_NoDirGoesOn(c) ==
    IF c.bypass = "no_caching" THEN "exec_bypass" ELSE "check_dir"

\* method_wrapper without the early return of lines 231-232
AfterResolve_NoCachingGoesOn(c) ==
    IF c.bypass = "nodir" THEN "exec_bypass" ELSE "check_dir"

\* lines 205-213 and 231-232 return early; otherwise line 242 is next
AfterResolve(c) == IF c.bypass # "" THEN "exec_bypass" ELSE "check_dir"

\* What the calls of the model resolve, per decoration: Resolve over every
\* choice of positional arguments and keywords
CallConfigs ==
    [d \in Decorations |->
        {Resolve(d, args, kw) : args \in ArgChoices, kw \in KwChoices}]

\* lines 193-240: a call whose arguments resolve to c; the configuration is
\* resolved without touching the file system
Call(p, c) ==
    /\ pc[p] = "idle"
    /\ ncalls < MaxCalls
    /\ ncalls' = ncalls + 1
    /\ cfg' = [cfg EXCEPT ![p] = c]
    /\ pc' = [pc EXCEPT ![p] = AfterResolve(c)]
    /\ log' = [log EXCEPT ![p] = <<>>]
    /\ ret' = [ret EXCEPT ![p] = NoRet]
    /\ pend' = [pend EXCEPT ![p] = NoPend]
    /\ prev' = [prev EXCEPT ![p] = Summary(cfg[p], ret[p], pend[p])]
    /\ pre' = [pre EXCEPT ![p] = [dirs |-> dirs, files |-> files]]
    /\ stderr' = [stderr EXCEPT ![p] = NoDirNotice(deco, c)]
    /\ UNCHANGED <<dirs, files, deco, inp, outp>>

\* lines 213 and 232: return method(*args, **kwargs); the wrapped function
\* returns r or raises
ExecBypass(p, r, raises) ==
    /\ pc[p] = "exec_bypass"
    /\ Logged(p, "exec")
    /\ pend' = [pend EXCEPT ![p].raw = IF raises THEN <<>> ELSE r]
    /\ Finish(p, IF raises THEN Raise("MethodError", <<>>) ELSE Return(r))
    /\ UNCHANGED <<dirs, files, deco, cfg, prev, pre, ncalls, stderr,
                   inp, outp>>

\* line 242: os.path.exists(inner_cachedir)
CheckDir(p) ==
    /\ pc[p] = "check_dir"
    /\ Logged(p, "exists_dir")
    /\ pc' = [pc EXCEPT ![p] = IF cfg[p].dir \in dirs THEN "check_cache"
                               ELSE "makedirs"]
    /\ UNCHANGED <<dirs, files, deco, cfg, pend, ret, prev, pre, ncalls, stderr,
                   inp, outp>>

\* line 248: os.makedirs(inner_cachedir) raises FileExistsError when the
\* directory exists by now
MakeDirs(p) ==
    /\ pc[p] = "makedirs"
    /\ IF cfg[p].dir \in dirs
       THEN /\ Logged(p, "makedirs_failed")
            /\ Finish(p, Raise("FileExistsError", cfg[p].dir))
            /\ UNCHANGED <<dirs, pend>>
       ELSE /\ Logged(p, "makedirs")
            /\ dirs' = dirs \cup {cfg[p].dir}
            /\ pc' = [pc EXCEPT ![p] = "check_cache"]
            /\ UNCHANGED <<pend, ret>>
    /\ stderr' = [stderr EXCEPT ![p] = @ \o CreatingNotice(deco, cfg[p])]
    /\ UNCHANGED <<files, deco, cfg, prev, pre, ncalls, inp, outp>>

\* The hit test with the negation of invalidate lost
IsHit_NegationLost(fs, c) == c.path \in DOMAIN fs /\ c.invalidate

\* The hit test without the invalidate flag
IsHit_IgnoresInvalidate(fs, c) == c.path \in DOMAIN fs

\* line 293: os.path.exists(cachepath) and not inner_invalidate
IsHit(fs, c) == c.path \in DOMAIN fs /\ ~c.invalidate

CheckCache(p) ==
    /\ pc[p] = "check_cache"
    /\ Logged(p, "exists_file")
    /\ pc' = [pc EXCEPT ![p] = IF IsHit(files, cfg[p]) THEN "read"
                               ELSE "exec_miss"]
    /\ UNCHANGED <<dirs, files, deco, cfg, pend, ret, prev, pre, ncalls, stderr,
                   inp, outp>>

\* The hit branch applying the miss callback
HitOutcome_MissCallback(fs, c) ==
    LET r == _choose_reader(c.fmt, c.gz)
    IN  IF r.err # "" THEN Raise(r.err, Format(c.fmt))
        ELSE IF c.path \notin DOMAIN fs THEN Raise("FileNotFoundError", c.path)
        ELSE LET x == ReadFile(r.fmt, r.gz, fs[c.path])
             IN  IF x.ok THEN Return(Apply(c.cb_miss, x.val))
                 ELSE Raise("DecodeError", c.path)

\* The hit branch with the error of the reader swallowed: None is returned
HitOutcome_SwallowsReadError(fs, c) ==
    LET r == _choose_reader(c.fmt, c.gz)
    IN  IF r.err # "" THEN Raise(r.err, Format(c.fmt))
        ELSE IF c.path \notin DOMAIN fs THEN Return(NoneVal)
        ELSE LET x == ReadFile(r.fmt, r.gz, fs[c.path])
             IN  IF x.ok THEN Return(Apply(c.cb_hit, x.val))
                 ELSE Return(NoneVal)

\* lines 297-303: the outcome of the hit branch
HitOutcome(fs, c) ==
    LET r == _choose_reader(c.fmt, c.gz)
    IN  IF r.err # "" THEN Raise(r.err, Format(c.fmt))
        ELSE IF c.path \notin DOMAIN fs THEN Raise("FileNotFoundError", c.path)
        ELSE LET x == ReadFile(r.fmt, r.gz, fs[c.path])
             IN  IF x.ok THEN Return(Apply(c.cb_hit, x.val))
                 ELSE Raise("DecodeError", c.path)

ReadCache(p) ==
    /\ pc[p] = "read"
    /\ Logged(p, IF _choose_reader(cfg[p].fmt, cfg[p].gz).err # ""
                 THEN "choose_reader_failed" ELSE "read")
    /\ Finish(p, HitOutcome(files, cfg[p]))
    /\ UNCHANGED <<dirs, files, deco, cfg, pend, prev, pre, ncalls, stderr,
                   inp, outp>>

\* A miss that stores an entry also when the wrapped function raised
MissOutcome_SwallowsMethodError(c, r, raises) ==
    LET w == _choose_writer(c.fmt, c.gz)
    IN  IF w.err # "" THEN Raise(w.err, Format(c.fmt)) ELSE NoRet

\* lines 307-318 up to the writer's try block: the wrapped function runs
\* (returns r or raises), the writer is chosen, json and pickle dump.
\* NoRet: the call goes on to open the file.
MissOutcome(c, r, raises) ==
    LET w == _choose_writer(c.fmt, c.gz)
        d == DumpBeforeTry(c.fmt, r)
    IN  IF raises THEN Raise("MethodError", <<>>)
        ELSE IF w.err # "" THEN Raise(w.err, Format(c.fmt))
        ELSE IF ~d.ok THEN Raise("TypeError", <<"dumps">>)
        ELSE NoRet

ExecMiss(p, r, raises) ==
    /\ pc[p] = "exec_miss"
    /\ Logged(p, "exec")
    /\ pend' = [pend EXCEPT ![p] =
                  IF raises THEN NoPend
                  ELSE [raw |-> r, bytes |-> DumpBeforeTry(cfg[p].fmt, r).bytes,
                        err |-> ""]]
    /\ IF MissOutcome(cfg[p], r, raises).kind # "none"
       THEN Finish(p, MissOutcome(cfg[p], r, raises))
       ELSE /\ pc' = [pc EXCEPT ![p] = "open_w"]
            /\ UNCHANGED ret
    /\ stderr' = [stderr EXCEPT ![p] =
                    IF raises THEN @ ELSE @ \o GeneratingNotice(deco, cfg[p])]
    /\ UNCHANGED <<dirs, files, deco, cfg, prev, pre, ncalls, inp, outp>>

\* io_handler(filepath, 'wb'): creates or truncates the file, or fails
OpenW(p, ok) ==
    /\ pc[p] = "open_w"
    /\ IF ok
       THEN /\ files' = PutFile(files, cfg[p].path, EmptyFile(cfg[p].gz))
            /\ Logged(p, "open_w")
            /\ pc' = [pc EXCEPT ![p] = "write"]
            /\ UNCHANGED pend
       ELSE /\ Logged(p, "open_w_failed")
            /\ pend' = [pend EXCEPT ![p].err = "OSError"]
            /\ pc' = [pc EXCEPT ![p] = "cleanup"]
            /\ UNCHANGED files
    /\ UNCHANGED <<dirs, deco, cfg, ret, prev, pre, ncalls, stderr,
                   inp, outp>>

\* A writer that removes the file in a finally clause, after a write that
\* succeeded too
AfterWrite_RemovesInFinally(fs, path, file) == DelFile(fs, path)

\* write(2) at offset 0 of a descriptor opened with 'wb': the bytes written
\* replace the bytes at the same offsets, the bytes beyond them stay
Overlay(old, new) == new \o SubSeq(old, Len(new) + 1, Len(old))

\* the files after the with block of a writer has written file to the open
\* path (a path unlinked since it was opened is not created again); the
\* file was truncated when this writer opened it, so it holds more than
\* nothing only if another writer has written since
AfterWrite(fs, path, file) ==
    IF path \in DOMAIN fs
    THEN PutFile(fs, path, FileOf(file.gz, Overlay(fs[path].bytes, file.bytes),
                                  file.complete))
    ELSE fs

\* f.write(dump) / numpy.save(f, data, allow_pickle=False), and the return
\* of lines 321-323 when the write succeeds
WriteW(p, ok) ==
    /\ pc[p] = "write"
    /\ LET w == WriteInTry(cfg[p].fmt, pend[p].raw, pend[p].bytes)
       IN  IF w.ok /\ ok
           THEN /\ files' = AfterWrite(files, cfg[p].path,
                                       FileOf(cfg[p].gz, w.bytes, TRUE))
                /\ Logged(p, "write")
                /\ Finish(p, Return(Apply(cfg[p].cb_miss, pend[p].raw)))
                /\ UNCHANGED pend
           ELSE /\ Logged(p, "write_failed")
                /\ pend' = [pend EXCEPT ![p].err =
                              IF w.ok THEN "OSError" ELSE "ValueError"]
                /\ pc' = [pc EXCEPT ![p] = "cleanup"]
                /\ UNCHANGED <<files, ret>>
    /\ UNCHANGED <<dirs, deco, cfg, prev, pre, ncalls, stderr,
                   inp, outp>>

\* except Exception: os.remove(filepath); raise
\* os.remove raises FileNotFoundError when there is no file, and may fail
\* on a file that exists (removable tells); either exception replaces the
\* one being handled
RemoveOutcome(fs, path, caught, removable) ==
    IF path \notin DOMAIN fs THEN Raise("FileNotFoundError", path)
    ELSE IF ~removable THEN Raise("PermissionError", path)
    ELSE Raise(caught, path)

\* A cleanup that removes nothing
AfterRemove_KeepsFile(fs, path, removable) == fs

\* the files after os.remove(path)
AfterRemove(fs, path, removable) ==
    IF path \in DOMAIN fs /\ removable THEN DelFile(fs, path) ELSE fs

Cleanup(p, removable) ==
    /\ pc[p] = "cleanup"
    /\ files' = AfterRemove(files, cfg[p].path, removable)
    /\ Logged(p, IF cfg[p].path \notin DOMAIN files THEN "remove_missing"
                 ELSE IF removable THEN "remove" ELSE "remove_denied")
    /\ Finish(p, RemoveOutcome(files, cfg[p].path, pend[p].err, removable))
    /\ UNCHANGED <<dirs, deco, cfg, pend, prev, pre, ncalls, stderr,
                   inp, outp>>

\* one step of caller p
Step(p) ==
    \/ \E c \in CallConfigs[deco] : Call(p, c)
    \/ \E r \in Results, raises \in BOOLEAN : ExecBypass(p, r, raises)
    \/ CheckDir(p)
    \/ MakeDirs(p)
    \/ CheckCache(p)
    \/ ReadCache(p)
    \/ \E r \in Results, raises \in BOOLEAN : ExecMiss(p, r, raises)
    \/ \E ok \in BOOLEAN : OpenW(p, ok)
    \/ \E ok \in BOOLEAN : WriteW(p, ok)
    \/ \E removable \in BOOLEAN : Cleanup(p, removable)

\* Calls made one after the other by one caller
Next == \E p \in SeqProcs : Step(p)

Spec == Init /\ [][Next]_vars

\* Another user of the cache directory touches the file at path while a
\* caller whose current (or last) call is for that path is at position at:
\* between two calls, or between the existence check and the read
Exposed(path, at) ==
    \E p \in SeqProcs : cfg[p].path = path /\ pc[p] = at

\* bytes no reader decodes
Garbage == <<"garbage">>

\* the file at path is overwritten with Garbage
Corrupt(path) ==
    /\ path \in DOMAIN files
    /\ Exposed(path, "idle")
    /\ files[path].bytes # Garbage
    /\ files' = [files EXCEPT ![path] = FileOf(@.gz, Garbage, TRUE)]
    /\ UNCHANGED <<dirs, deco, pc, cfg, pend, log, ret, prev, pre, ncalls,
                   stderr, inp, outp>>

\* the file at path is deleted
Unlink(path) ==
    /\ path \in DOMAIN files
    /\ Exposed(path, "read")
    /\ files' = DelFile(files, path)
    /\ UNCHANGED <<dirs, deco, pc, cfg, pend, log, ret, prev, pre, ncalls,
                   stderr, inp, outp>>

\* Calls made one after the other while cache files are corrupted and
\* deleted from outside
EnvNext ==
    \/ Next
    \/ \E path \in DOMAIN files : Corrupt(path)
    \/ \E path \in DOMAIN files : Unlink(path)

\* the decoration called while the files are touched from outside: a cache
\* directory with the pair of callbacks
EnvDecorations == {d \in Decorations : d.callback_func_hit # "None"}

EnvInit ==
    /\ \E d \in EnvDecorations : Decorated(d)
    /\ inp = NoInp
    /\ outp = NoOutp

EnvSpec == EnvInit /\ [][EnvNext]_vars

\* Two callers (threads or processes) of one decorated function share the
\* cache directory; nothing in method_wrapper or in the writers serialises
\* them, so their steps interleave freely.
ConcDecorations == {d \in Decorations : d = [DefaultDeco EXCEPT !.cachedir = D1]}

\* what the wrapped function returns to the concurrent callers: two lists
\* whose dumps differ in length
ConcResults == {L1, L12}

\* the calls of the concurrent callers: no caching keyword, or invalidate
ConcKw == {kw \in KwChoices : Passed(kw) \subseteq {"invalidate"}}

ConcConfigs ==
    [d \in ConcDecorations |->
        {Resolve(d, [n |-> 0, attr |-> {}], kw) : kw \in ConcKw}]

ConcStep(p) ==
    \/ \E c \in ConcConfigs[deco] : Call(p, c)
    \/ CheckDir(p)
    \/ MakeDirs(p)
    \/ CheckCache(p)
    \/ ReadCache(p)
    \/ \E r \in ConcResults, raises \in BOOLEAN : ExecMiss(p, r, raises)
    \/ \E ok \in BOOLEAN : OpenW(p, ok)
    \/ \E ok \in BOOLEAN : WriteW(p, ok)
    \/ \E removable \in BOOLEAN : Cleanup(p, removable)

ConcNext == \E p \in Procs : ConcStep(p)

ConcInit ==
    /\ \E d \in ConcDecorations : Decorated(d)
    /\ inp = NoInp
    /\ outp = NoOutp

ConcSpec == ConcInit /\ [][ConcNext]_vars

\* Calls made one after the other that choose the format and the compression
\* of the entry through cache_format, cache_compression and cache_ext.
\* S_json_gzip is a format token no writer has, whose file name is the one
\* of a compressed json entry.
S_json_gzip == S_json \o S_dotgzip

FormatKw ==
    [cachedir : {{}}, invalidate : {{}}, no_caching : {{}},
     cache_name : {{}}, cache_comment : {{}},
     callback_func_miss : {{}}, callback_func_hit : {{}},
     cache_ext : {{}, {S_json_gz}, {S_pickle}},
     cache_compression : {{}, {FALSE}},
     cache_format : {{}, {S_pickle}, {S_json_gzip}},
     quiet : {{}}]

FormatDecorations == {d \in Decorations : d = [DefaultDeco EXCEPT !.cachedir = D1]}

FormatConfigs ==
    [d \in FormatDecorations |->
        {Resolve(d, [n |-> 0, attr |-> {}], kw) : kw \in FormatKw}]

FormatResults == {L1, L2}

FormatStep(p) ==
    \/ \E c \in FormatConfigs[deco] : Call(p, c)
    \/ CheckDir(p)
    \/ MakeDirs(p)
    \/ CheckCache(p)
    \/ ReadCache(p)
    \/ \E r \in FormatResults, raises \in BOOLEAN : ExecMiss(p, r, raises)
    \/ \E ok \in BOOLEAN : OpenW(p, ok)
    \/ \E ok \in BOOLEAN : WriteW(p, ok)
    \/ \E removable \in BOOLEAN : Cleanup(p, removable)

FormatNext == \E p \in SeqProcs : FormatStep(p)

FormatInit ==
    /\ \E d \in FormatDecorations : Decorated(d)
    /\ inp = NoInp
    /\ outp = NoOutp

FormatSpec == FormatInit /\ [][FormatNext]_vars

\* the last call of caller p has ended
Done(p) == pc[p] = "idle" /\ ret[p].kind # "none"

\* ------------------------------------------------------------------------
\* Vocabulary of the claims
\* ------------------------------------------------------------------------

\* the last call of caller p ran the wrapped function
Executed(p) == \E i \in 1..Len(log[p]) : log[p][i] = "exec"

\* the last call of caller p did op
Did(p, op) == \E i \in 1..Len(log[p]) : log[p][i] = op

\* the last call of caller p went through the caching path
Caching(p) == Done(p) /\ cfg[p].bypass = ""

\* the file system is as it was when the last call of caller p began
SameFiles(p) == files = pre[p].files
SameDirs(p) == dirs = pre[p].dirs

\* the bytes the writer of fmt stores for v
Encoded(fmt, v) ==
    IF fmt = S_numpy THEN NumpySave(v).bytes ELSE DumpBeforeTry(fmt, v).bytes

\* v as a reader of fmt gives it back after a complete write
RoundTrip(fmt, gz, v) == ReadFile(fmt, gz, FileOf(gz, Encoded(fmt, v), TRUE)).val

\* the writer of the last call of caller p failed at opening or at writing
WriteFailed(p) == Did(p, "open_w_failed") \/ Did(p, "write_failed")

\* the last call of caller p followed a caching call for the same path that
\* was made with invalidate=False
FollowsSame(p) ==
    /\ prev[p].scope # "none"
    /\ ~prev[p].invalidate
    /\ prev[p].path = cfg[p].path

\* the steps of a hit: two existence checks and one read
HitLog == <<"exists_dir", "exists_file", "read">>

\* ------------------------------------------------------------------------
\* Claims
\* ------------------------------------------------------------------------

C2_InvalidateOverwrites ==
    \A p \in Procs :
        /\ (Caching(p) /\ cfg[p].invalidate)
           => /\ Executed(p)
              /\ ~Did(p, "read")
              /\ ret[p].kind = "return"
                 => /\ cfg[p].path \in DOMAIN files
                    /\ files[cfg[p].path] =
                         FileOf(cfg[p].gz, Encoded(cfg[p].fmt, pend[p].raw), TRUE)
        /\ (Caching(p) /\ ~cfg[p].invalidate /\ prev[p].scope = "return"
              /\ prev[p].invalidate /\ prev[p].path = cfg[p].path)
           => /\ ~Executed(p)
              /\ ret[p] = Return(Apply(cfg[p].cb_hit,
                                       RoundTrip(cfg[p].fmt, cfg[p].gz, prev[p].raw)))

\* an invalidating call has overwritten an entry with a different result
C2_WitnessOverwrite ==
    \E p \in Procs :
        /\ Caching(p) /\ cfg[p].invalidate /\ ret[p].kind = "return"
        /\ cfg[p].path \in DOMAIN pre[p].files
        /\ pre[p].files[cfg[p].path].complete
        /\ pre[p].files[cfg[p].path] # files[cfg[p].path]

\* the last call of caller p was a hit that followed, for the same path, a
\* call that ran the wrapped function and returned
HitAfterMiss(p) ==
    /\ Caching(p) /\ Did(p, "read") /\ ret[p].kind = "return"
    /\ prev[p].scope = "return" /\ prev[p].path = cfg[p].path
    /\ prev[p].raw # <<>>

\* a miss that returned gave back the miss callback applied to the raw
\* result and stored the encoding of the raw result itself
MissStoresRaw(p) ==
    (Caching(p) /\ Executed(p) /\ ret[p].kind = "return")
    => /\ ret[p].val = Apply(cfg[p].cb_miss, pend[p].raw)
       /\ cfg[p].path \in DOMAIN files
       /\ files[cfg[p].path] =
            FileOf(cfg[p].gz, Encoded(cfg[p].fmt, pend[p].raw), TRUE)

\* C3 as stated: a miss returns f(raw) and stores raw, and the hit that
\* follows returns g(raw).
C3_HitReturnsCallbackOfRaw ==
    \A p \in Procs :
        /\ MissStoresRaw(p)
        /\ HitAfterMiss(p) => ret[p].val = Apply(cfg[p].cb_hit, prev[p].raw)

\* C3 amended: a miss returns f(raw) and stores the encoding of raw (not of
\* f(raw)); the hit that follows returns g applied to raw as the format reads
\* it back (json reads a tuple back as a list, numpy reads a list back as an
\* array); a call applies exactly one callback, f on a miss and g on a hit.
C3_HitReturnsCallbackOfStored ==
    \A p \in Procs :
        /\ MissStoresRaw(p)
        /\ HitAfterMiss(p)
           => /\ ~Executed(p)
              /\ ret[p].val = Apply(cfg[p].cb_hit,
                                    RoundTrip(cfg[p].fmt, cfg[p].gz, prev[p].raw))

\* a hit after a miss, with two different callbacks and a result that the
\* format does not read back as it was
C3_Witness ==
    \E p \in Procs :
        /\ HitAfterMiss(p)
        /\ cfg[p].cb_hit = "g" /\ deco.callback_func_miss = "f"
        /\ RoundTrip(cfg[p].fmt, cfg[p].gz, prev[p].raw) # prev[p].raw

\* C4: a call for which no cache directory resolves runs the wrapped
\* function and nothing else, returns its result as it is (or lets its
\* exception through), and leaves directories and files as they were.
C4_NoDirectoryBypass ==
    \A p \in Procs :
        (Done(p) /\ cfg[p].bypass = "nodir")
        => /\ log[p] = <<"exec">>
           /\ ret[p] \in {Return(pend[p].raw), Raise("MethodError", <<>>)}
           /\ ret[p].kind = "return" => pend[p].raw \in Results
           /\ SameFiles(p) /\ SameDirs(p)

\* a call without directory has returned although the decoration names a
\* directory and callbacks
C4_Witness ==
    \E p \in Procs :
        /\ Done(p) /\ cfg[p].bypass = "nodir" /\ ret[p].kind = "return"
        /\ deco.cachedir = D1 /\ deco.callback_func_miss = "f"

\* C5: a call with no_caching true runs the wrapped function and nothing
\* else (no existence check, no directory creation, no read, write or
\* removal), returns its result without a callback, and leaves directories
\* and files as they were, also when a cache file of the function exists.
C5_NoCachingBypass ==
    \A p \in Procs :
        (Done(p) /\ cfg[p].bypass = "no_caching")
        => /\ log[p] = <<"exec">>
           /\ ret[p] \in {Return(pend[p].raw), Raise("MethodError", <<>>)}
           /\ ret[p].kind = "return" => pend[p].raw \in Results
           /\ SameFiles(p) /\ SameDirs(p)

\* a no_caching call has returned while a cache file of the function exists
C5_Witness ==
    \E p \in Procs :
        /\ Done(p) /\ cfg[p].bypass = "no_caching" /\ ret[p].kind = "return"
        /\ DOMAIN files # {}

\* C6: when the wrapped function raises during a miss, the caller gets that
\* exception and the files are as they were before the call: no file where
\* there was none, the previous content where there was one.
C6_MethodErrorWritesNothing ==
    \A p \in Procs :
        (Caching(p) /\ Executed(p) /\ pend[p].raw = <<>>)
        => /\ ret[p] = Raise("MethodError", <<>>)
           /\ SameFiles(p)
           /\ ~Did(p, "open_w") /\ ~Did(p, "open_w_failed") /\ ~Did(p, "remove")

\* the wrapped function has raised in an invalidating call over an entry
C6_Witness ==
    \E p \in Procs :
        /\ Caching(p) /\ ret[p].err = "MethodError" /\ cfg[p].invalidate
        /\ cfg[p].path \in DOMAIN files
        /\ files[cfg[p].path].complete

\* C7 as stated: after a call whose writer failed at opening the file or
\* while writing to it, there is no file at the cache path.
C7_NoFileAfterFailedWrite ==
    \A p \in Procs :
        (Caching(p) /\ WriteFailed(p)) => cfg[p].path \notin DOMAIN files

\* C7 amended: after a call whose writer failed at opening the file or while
\* writing to it, there is no file at the cache path unless the removal of
\* the path failed too; a file is left only by a removal that was denied.
C7_NoFileUnlessRemovalDenied ==
    \A p \in Procs :
        (Caching(p) /\ WriteFailed(p))
        => /\ ret[p].kind = "raise"
           /\ cfg[p].path \in DOMAIN files <=> Did(p, "remove_denied")

\* a write has failed after the file was opened, and the file was removed
C7_Witness ==
    \E p \in Procs :
        /\ Caching(p) /\ Did(p, "open_w") /\ Did(p, "write_failed")
        /\ Did(p, "remove")
        /\ cfg[p].path \notin DOMAIN files

\* C8 as stated: when the writer fails, the caller receives the error of the
\* failed write, also when the file could not be created and does not exist
\* when the cleanup removes it.
C8_OriginalWriteErrorReachesCaller ==
    \A p \in Procs :
        (Caching(p) /\ WriteFailed(p))
        => (ret[p].kind = "raise" /\ ret[p].err = pend[p].err)

\* C9 as stated: a caching call whose format is none of json, pickle and
\* numpy ends with CacheError naming the format (unless the wrapped function
\* itself raised).
C9_UnsupportedFormatIsCacheError ==
    \A p \in Procs :
        (Caching(p) /\ cfg[p].fmt \notin WriterNames
           /\ ret[p].err # "MethodError")
        => ret[p] = Raise("CacheError", Format(cfg[p].fmt))

\* C10 as stated: when a call ends with CacheError, no directory has been
\* created and no file written since the call began.
C10_CacheErrorBeforeMutation ==
    \A p \in Procs :
        (Done(p) /\ ret[p].err = "CacheError") => (SameDirs(p) /\ SameFiles(p))

\* the last step of caller p was a failed open or a failed write
JustFailedWrite(p) ==
    /\ log[p] # <<>>
    /\ log[p][Len(log[p])] \in {"open_w_failed", "write_failed"}

\* C18: a step removes a file only if it is the cleanup of a caller whose
\* writer has just failed to open or to write that same path; no step of a
\* hit, of a miss whose write succeeds, of a bypassed call or of a failed
\* read makes a file disappear.
C18_RemovalOnlyAfterFailedWrite ==
    [][\A path \in DOMAIN files :
          path \notin DOMAIN files'
          => \E p \in Procs :
                /\ pc[p] = "cleanup"
                /\ cfg[p].path = path
                /\ JustFailedWrite(p)]_vars

\* the entry of an earlier call has been removed by the cleanup of a failed
\* write to its path
C18_Witness ==
    \E p \in Procs :
        /\ Caching(p) /\ Did(p, "remove")
        /\ cfg[p].path \in DOMAIN pre[p].files
        /\ pre[p].files[cfg[p].path].complete
        /\ cfg[p].path \notin DOMAIN files
        /\ DOMAIN files # {}

\* the reader of configuration c cannot give a value from the files fs:
\* there is no file at the path any more, or its content does not decode
Unreadable(fs, c) ==
    \/ c.path \notin DOMAIN fs
    \/ ~ReadFile(c.fmt, c.gz, fs[c.path]).ok

\* caller p leaves the hit branch in this step
ReadStep(p) == pc[p] = "read" /\ pc'[p] # "read"

\* the last call of caller p took the hit branch
TookHitBranch(p) ==
    /\ log[p] # <<>>
    /\ log[p][Len(log[p])] \in {"read", "choose_reader_failed"}

\* C19: the step that leaves the hit branch ends the call and changes no
\* file and no directory; when the file found by the existence check cannot
\* be read (corrupt, or deleted since the check) the call ends with the
\* error of the read, without having run the wrapped function and after a
\* single read; and a call made without invalidate that finds the file after
\* a call for the same path that raised fails too, without running the
\* wrapped function.
C19_ReadErrorPropagates ==
    /\ [][\A p \in Procs :
            ReadStep(p)
            => /\ pc'[p] = "idle"
               /\ files' = files /\ dirs' = dirs
               /\ log'[p] \in {HitLog,
                               <<"exists_dir", "exists_file", "choose_reader_failed">>,
                               <<"exists_dir", "makedirs", "exists_file", "read">>,
                               <<"exists_dir", "makedirs", "exists_file",
                                 "choose_reader_failed">>}
               /\ Unreadable(files, cfg[p])
                  => /\ ret'[p].kind = "raise"
                     /\ cfg[p].fmt \in ReaderNames
                        => ret'[p].err \in {"DecodeError", "FileNotFoundError"}]_vars
    /\ [](\A p \in Procs :
            (Caching(p) /\ TookHitBranch(p) /\ FollowsSame(p)
               /\ prev[p].scope = "raise")
            => (ret[p].kind = "raise" /\ ~Executed(p)))

\* a call has ended with the error of reading a file that was deleted
\* between the existence check and the read
C19_Witness ==
    \E p \in Procs :
        /\ Caching(p) /\ log[p] = HitLog
        /\ ret[p] = Raise("FileNotFoundError", cfg[p].path)
        /\ cfg[p].path \notin DOMAIN files

\* the notices of the last call of caller p that name the generated path
Generating(p) ==
    {i \in 1..Len(stderr[p]) : stderr[p][i] = <<"generating", cfg[p].path>>}

\* C20 as stated: with quiet not set, a miss (whose wrapped function
\* returned) prints exactly one notice naming the generated cache path; with
\* quiet set, no call prints anything, whether it finds no directory,
\* creates the cache directory or misses.
C20_QuietGovernsDiagnostics ==
    \A p \in Procs :
        Done(p)
        => /\ (~deco.quiet /\ Caching(p) /\ Executed(p) /\ pend[p].raw # <<>>)
              => Cardinality(Generating(p)) = 1
           /\ deco.quiet => stderr[p] = <<>>

\* the current (or last) calls of callers p and q are two misses of one
\* entry that did not exist when either call began
BothMissed(p, q) ==
    /\ cfg[p].bypass = "" /\ cfg[q].bypass = ""
    /\ cfg[p].path = cfg[q].path
    /\ ~cfg[p].invalidate /\ ~cfg[q].invalidate
    /\ cfg[p].path \notin DOMAIN pre[p].files
    /\ cfg[p].path \notin DOMAIN pre[q].files

\* caller p completes its write in this step
CompletesWrite(p) == pc[p] = "write" /\ pc'[p] = "idle" /\ ret'[p].kind = "return"

\* C21: when two callers miss the same absent entry and both write it, the
\* write that completes last leaves the file with exactly the bytes of its
\* own result (last writer wins, never a mixture of the two results).
C21_LastWriterWins ==
    [][\A p \in Procs, q \in Procs :
          (/\ p # q
           /\ BothMissed(p, q)
           /\ Executed(p) /\ Executed(q)
           /\ Did(q, "write")
           /\ CompletesWrite(p))
          => /\ cfg[p].path \in DOMAIN files'
             /\ files'[cfg[p].path] =
                   FileOf(cfg[p].gz, Encoded(cfg[p].fmt, pend[p].raw), TRUE)]_vars

\* another caller has opened the file of caller p for writing and has not
\* completed its write
WriteInProgress(p) ==
    \E q \in Procs \ {p} : pc[q] = "write" /\ cfg[q].path = cfg[p].path

\* C27: whatever the interleaving of the callers, the read of a hit never
\* takes place while another caller is between opening the file and
\* completing its write, and a value returned by a hit is the value a
\* completed write stored, passed through the hit callback.
C27_HitReadsCompleteFile ==
    [][\A p \in Procs :
          (pc[p] = "read" /\ pc'[p] = "idle")
          => /\ ~WriteInProgress(p)
             /\ ret'[p].kind = "return"
                => /\ cfg[p].path \in DOMAIN files
                   /\ files[cfg[p].path].complete
                   /\ \E v \in ConcResults :
                         /\ files[cfg[p].path].bytes = Encoded(cfg[p].fmt, v)
                         /\ ret'[p].val = Apply(cfg[p].cb_hit,
                                                RoundTrip(cfg[p].fmt, cfg[p].gz, v))]_vars

\* the directory of the call of caller p exists, and the call did not fail
\* at creating it
DirectoryReady(p) ==
    /\ cfg[p].dir \in dirs
    /\ ~(ret[p].kind = "raise" /\ ret[p].err = "FileExistsError")

\* C30: when two callers make their first caching call while the cache
\* directory does not exist, under every interleaving the directory ends up
\* created and neither call fails because of the creation of the directory.
C30_DirectoryCreationIsSafe ==
    \A p \in Procs :
        (cfg[p].bypass = "" /\ Did(p, "exists_dir") /\ pc[p] \notin {"check_dir", "makedirs"})
        => DirectoryReady(p)

\* file holds what the writer of fmt writes through the handler of gz: an
\* opened file that was not written yet, or the dump of a result
WrittenAs(file, fmt, gz) ==
    /\ file.gz = gz
    /\ file.complete =>
          /\ fmt \in WriterNames
          /\ \E v \in Results : file.bytes = Encoded(fmt, v)

\* the current (or last) call of caller p resolved the path of a file that
\* exists
ResolvesEntry(p) == cfg[p].bypass = "" /\ cfg[p].path \in DOMAIN files

\* C22 as stated: whatever cache_format, cache_compression and cache_ext the
\* calls pass, a call that resolves the path of an existing cache file uses
\* the format and the compression with which the file was written.
C22_PathTellsFormat ==
    \A p \in SeqProcs :
        ResolvesEntry(p)
        => WrittenAs(files[cfg[p].path], cfg[p].fmt, cfg[p].gz)

\* C22 amended: a call of a format that has a reader resolves the path of
\* an existing cache file only if the file was written with the same format
\* and compression; a call of a format without a reader may resolve such a
\* path, and then it ends without reading the file.
C22_ReadBackAsWritten ==
    \A p \in SeqProcs :
        ResolvesEntry(p)
        => IF cfg[p].fmt \in ReaderNames
           THEN WrittenAs(files[cfg[p].path], cfg[p].fmt, cfg[p].gz)
           ELSE ~Did(p, "read") /\ (Done(p) => ret[p].kind = "raise")

\* a hit on an uncompressed pickle entry while an entry of another format
\* and compression is in the same directory
C22_Witness ==
    \E p \in SeqProcs :
        /\ Done(p) /\ ret[p].kind = "return"
        /\ Did(p, "read")
        /\ cfg[p].fmt = S_pickle /\ ~cfg[p].gz
        /\ \E other \in DOMAIN files :
              other # cfg[p].path /\ files[other].complete /\ files[other].gz

\* ------------------------------------------------------------------------
\* The resolution of the options, applied on its own
\* ------------------------------------------------------------------------

\* number of options one decoration sets, and one call passes, when the
\* resolution is applied on its own
MaxOpts == 2

D2 == <<"e">>

\* the value given to each option at decoration time, when it is given
DecoValue ==
    [cachedir |-> D1, cache_comment |-> <<"c">>, invalidate |-> TRUE,
     cache_format |-> S_pickle, cache_compression |-> FALSE,
     callback_func_hit |-> "g", callback_func_miss |-> "f",
     quiet |-> TRUE, no_caching |-> TRUE, cache_name |-> <<"n">>,
     cache_ext |-> S_json_gz]

\* simple_caching(**{k: DecoValue[k] for k in given}) applied to the function
\* named method
DecoWith(given, method) ==
    [k \in DOMAIN DefaultDeco |->
        IF k = "method" THEN method
        ELSE IF k \in given THEN DecoValue[k] ELSE DefaultDeco[k]]

WideDecorations ==
    {DecoWith(given, MethodName) :
        given \in {g \in SUBSET KwNames : Cardinality(g) <= MaxOpts}}

\* the values a call passes; they differ from the ones of DecoValue, or are
\* the defaults again
WideKwSpace ==
    [cachedir : {{}, {D2}},
     invalidate : {{}, {TRUE}, {FALSE}},
     no_caching : {{}, {TRUE}, {FALSE}},
     cache_name : {{}, {<<"m">>}},
     cache_comment : {{}, {<<"k">>}},
     callback_func_miss : {{}, {"h"}},
     callback_func_hit : {{}, {"h"}},
     cache_ext : {{}, {<<"n", "u", "m", "p", "y">>}},
     cache_compression : {{}, {TRUE}, {FALSE}},
     cache_format : {{}, {S_numpy}},
     quiet : {{}, {TRUE}, {FALSE}}]

WideKw == {kw \in WideKwSpace : Cardinality(Passed(kw)) <= MaxOpts}

\* The value method_wrapper uses for each option in a call: lines 198-201,
\* 218-229, 250-277; quiet is read from local_quiet (lines 206 and 310)
Effective(d, args, kw) ==
    [cachedir |-> InnerCachedir(d, args, kw),
     invalidate |-> Pop(kw.invalidate, d.invalidate),
     no_caching |-> Pop(kw.no_caching, d.no_caching),
     cache_name |-> Pop(kw.cache_name, d.cache_name),
     cache_comment |-> Pop(kw.cache_comment,
                           IF Truthy(d.cache_comment) THEN d.cache_comment
                           ELSE <<>>),
     callback_func_miss |-> Pop(kw.callback_func_miss,
                                LocalCallback(d.callback_func_miss)),
     callback_func_hit |-> Pop(kw.callback_func_hit,
                               LocalCallback(d.callback_func_hit)),
     cache_ext |-> InnerCacheExt(d, kw),
     cache_compression |-> InnerCacheCompression(d, kw),
     cache_format |-> InnerCacheFormat(d, kw),
     quiet |-> LocalQuiet(d)]

ResolveInputs ==
    [op : {"resolve"}, d : WideDecorations, args : ArgChoices, kw : WideKw]

\* declared names of wrapped functions
S_foo == <<"f", "o", "o">>
S__foo == <<"_", "f", "o", "o">>
S_foo_ == <<"f", "o", "o", "_">>
S_foo_bar == <<"f", "o", "o", "_", "b", "a", "r">>
MethodNames == {S_foo, S__foo, S_foo_, S_foo_bar}

\* cache comments: none, empty, and three words
S_bar == <<"b", "a", "r">>
S_x == <<"x">>
S_bar_x == <<"b", "a", "r", "_", "x">>
Comments == {NoneVal, <<>>, S_bar, S_x, S_bar_x}

\* decorations that name the directory D1 and differ in what the file name
\* is made of
PathDecorations ==
    {[DefaultDeco EXCEPT !.cachedir = D1, !.method = m, !.cache_comment = c,
                         !.cache_compression = z, !.cache_format = f,
                         !.cache_name = n] :
        m \in MethodNames, c \in Comments, z \in BOOLEAN,
        f \in {S_json, S_pickle}, n \in {NoneVal, <<"n">>}}

\* the options of the file name
PathOptions ==
    {"cache_name", "cache_comment", "cache_format", "cache_compression",
     "cache_ext"}

NoArgs == [n |-> 0, attr |-> {}]

PathInputs ==
    [op : {"path"}, d : PathDecorations, args : {NoArgs},
     kw : {kw \in WideKw : Passed(kw) \subseteq PathOptions}]

\* method_wrapper resolves the options of one call
ApplyResolve ==
    /\ inp \in ResolveInputs \cup PathInputs
    /\ outp = NoOutp
    /\ outp' = [op |-> inp.op,
                effective |-> Effective(inp.d, inp.args, inp.kw),
                call |-> Resolve(inp.d, inp.args, inp.kw),
                forwarded |-> Forwarded(inp.d, inp.args, inp.kw),
                notice |-> GeneratingNotice(inp.d, Resolve(inp.d, inp.args, inp.kw))]
    /\ UNCHANGED <<inp, cvars>>

\* a call that passes none of the options
NoKw == [k \in KwNames |-> {}]

\* two decorated functions of different declared names that share the
\* directory D1, the format and the compression, without cache_name
ShareInputs ==
    {[op |-> "share", a |-> ab[1], b |-> ab[2]] :
        ab \in {pr \in PathDecorations \X PathDecorations :
                  /\ pr[1].method # pr[2].method
                  /\ pr[1].cache_format = pr[2].cache_format
                  /\ pr[1].cache_compression = pr[2].cache_compression
                  /\ pr[1].cache_name = NoneVal
                  /\ pr[2].cache_name = NoneVal}}

\* each of the two functions is called, without options
ApplyShare ==
    /\ inp \in ShareInputs
    /\ outp = NoOutp
    /\ outp' = [op |-> "share",
                a |-> Resolve(inp.a, NoArgs, NoKw),
                b |-> Resolve(inp.b, NoArgs, NoKw)]
    /\ UNCHANGED <<inp, cvars>>

\* The arguments of a call of the wrapped function: its positional values
\* (none of them has a cachedir attribute) and the names of the keywords it
\* passes that are not options of the decorator
PosValues == {<<>>, <<1>>, <<2>>, <<1, 2>>}

Calls ==
    {[args |-> [n |-> Len(v), attr |-> {}, val |-> v], other |-> o] :
        v \in PosValues, o \in SUBSET {"include_args", "verbose"}}

ArgsInputs ==
    [op : {"args"},
     d : {[DefaultDeco EXCEPT !.cachedir = D1],
          [DefaultDeco EXCEPT !.cachedir = D1, !.cache_comment = S_x]},
     x : Calls, y : Calls]

\* one decorated function is called twice
ApplyArgs ==
    /\ inp \in ArgsInputs
    /\ outp = NoOutp
    /\ outp' = [op |-> "args",
                x |-> Resolve(inp.d, inp.x.args, NoKw),
                y |-> Resolve(inp.d, inp.y.args, NoKw)]
    /\ UNCHANGED <<inp, cvars>>

ResolveInit ==
    /\ Decorated(DefaultDeco)
    /\ inp \in ResolveInputs \cup PathInputs \cup ShareInputs \cup ArgsInputs
    /\ outp = NoOutp

ResolveNext == ApplyResolve \/ ApplyShare \/ ApplyArgs

ResolveSpec == ResolveInit /\ [][ResolveNext]_vars

\* what a decoration gives for option k when the call does not pass it: the
\* decoration-time value, None standing for an empty comment and for the
\* identity callback
Layered(d, k) ==
    IF k = "cache_comment" /\ ~Truthy(d[k]) THEN <<>>
    ELSE IF k \in {"callback_func_miss", "callback_func_hit"}
    THEN LocalCallback(d[k])
    ELSE d[k]

\* option k is resolved from the three layers in this call: the directory
\* when the first positional argument has no cachedir attribute, format and
\* compression when no cache_ext is in effect
ThreeLayers(k, args, e) ==
    /\ k = "cachedir" => ~HasCachedirAttr(args)
    /\ k \in {"cache_format", "cache_compression"} => e.cache_ext = NoneVal

\* C11 as stated: in a call that resolves a cache directory, the value used
\* for every option resolved from the three layers is the one passed at call
\* time when one is passed, and the decoration-time value (the built-in
\* default when the decoration gave none) otherwise.
C11_CallTimeTakesPrecedence ==
    (outp.op = "resolve" /\ outp.call.bypass # "nodir")
    => \A k \in KwNames :
           ThreeLayers(k, inp.args, outp.effective)
           => outp.effective[k] = Pop(inp.kw[k], Layered(inp.d, k))

\* the cache path as the claim composes it
StatedPath(dir, name, comment, fmt, compression) ==
    PathJoin(dir,
             name \o (IF Truthy(comment) THEN <<"_">> \o comment ELSE <<>>)
                  \o S_dotcache \o Format(fmt)
                  \o (IF compression THEN S_dotgzip ELSE <<>>))

\* the path resolved is the claim's composition for the name declared
PathOfName(declared) ==
    LET e == outp.effective
    IN  outp.call.path =
            StatedPath(e.cachedir,
                       IF e.cache_name = NoneVal THEN declared ELSE e.cache_name,
                       e.cache_comment, e.cache_format, e.cache_compression)

C13_DifferentNamesDifferentPaths ==
    outp.op = "share" => outp.a.path # outp.b.path

\* C14 as stated: with include_args passed, two calls of one decorated
\* function with different arguments resolve to different cache paths.
C14_DifferentArgsDifferentPaths ==
    (outp.op = "args"
       /\ "include_args" \in inp.x.other /\ "include_args" \in inp.y.other
       /\ inp.x.args.val # inp.y.args.val)
    => outp.x.path # outp.y.path

\* ------------------------------------------------------------------------
\* hashing.py: the compact encoding of integers
\* ------------------------------------------------------------------------

\* the integers encoded are -MaxN .. MaxN and a few of more digits
MaxN == 150

\* SYMBOLS, NEG_SYMBOL, BASE
SYMBOLS ==
    <<"0", "1", "2", "3", "4", "5", "6", "7", "8", "9", "a", "b", "c", "d", "e", "f",
      "g", "h", "u", "j", "k", "l", "m", "n", "o", "p", "q", "r", "s", "t", "u", "v",
      "w", "x", "y", "z", "A", "B", "C", "D", "E", "F", "G", "H", "U", "J", "K", "L",
      "M", "N", "O", "P", "Q", "R", "S", "T", "U", "V", "W", "X", "Y", "Z", "_", "=">>
NEG_SYMBOL == "-"
BASE == Len(SYMBOLS)

\* SYMBOLS[i] for the index i of Python, from 0
SymbolAt(i) == SYMBOLS[i + 1]

\* SYMBOLS_VALUE = {s: i for i, s in enumerate(SYMBOLS)}: a symbol that
\* occurs twice keeps the index of its last occurrence
SYMBOLS_VALUE(sym) ==
    CHOOSE i \in 0..(BASE - 1) :
        /\ SymbolAt(i) = sym
        /\ \A j \in 0..(BASE - 1) : SymbolAt(j) = sym => j <= i

\* the while loop of encode_compact64 for value >= 0: the digits, the most
\* significant first
RECURSIVE EncodeDigits(_)
EncodeDigits(value) ==
    IF value \div BASE = 0 THEN <<SymbolAt(value % BASE)>>
    ELSE Append(EncodeDigits(value \div BASE), SymbolAt(value % BASE))

encode_compact64(value) ==
    IF value < 0 THEN <<NEG_SYMBOL>> \o EncodeDigits(-value)
    ELSE EncodeDigits(value)

\* the for loop of decode_compact64: the sum of SYMBOLS_VALUE[symbol] *
\* BASE ** i over the reversed string
RECURSIVE DecodeDigits(_)
DecodeDigits(str) ==
    IF str = <<>> THEN 0
    ELSE DecodeDigits(SubSeq(str, 1, Len(str) - 1)) * BASE
         + SYMBOLS_VALUE(str[Len(str)])

decode_compact64(str) ==
    IF str[1] = NEG_SYMBOL THEN -DecodeDigits(Tail(str))
    ELSE DecodeDigits(str)

CompactInputs ==
    [op : {"compact64"},
     n : (-MaxN..MaxN)
         \cup {BASE * BASE, BASE * BASE * BASE - 1, -(BASE * BASE) - BASE}]

\* decode_compact64(encode_compact64(n))
ApplyCompact64 ==
    /\ inp \in CompactInputs
    /\ outp = NoOutp
    /\ outp' = [op |-> "compact64",
                enc |-> encode_compact64(inp.n),
                dec |-> decode_compact64(encode_compact64(inp.n))]
    /\ UNCHANGED <<inp, cvars>>

\* C15 as stated: for every integer n, negative ones included,
\* decode_compact64(encode_compact64(n)) = n.
C15_CompactRoundTrip ==
    outp.op = "compact64" => outp.dec = inp.n

\* ------------------------------------------------------------------------
\* hashing.py: hash_obj
\* ------------------------------------------------------------------------

\* length of the lists hashed
MaxLen == 2

\* Python values: numbers, strings, None, an object without canonical form,
\* lists, and mappings given by their items in insertion order
IntV(n) == [t |-> "int", v |-> n]
FloatV(n) == [t |-> "float", v |-> n]
StrV(str) == [t |-> "str", s |-> str]
NoneV == [t |-> "none"]
ObjV == [t |-> "object"]
ListV(items) == [t |-> "list", items |-> items]
DictV(items) == [t |-> "dict", items |-> items]

\* str(obj) of a number: the float 1.0 prints as 1.0
DigitOf(n) == SymbolAt(n)
StrOfNumber(x) ==
    IF x.t = "int" THEN <<DigitOf(x.v)>> ELSE <<DigitOf(x.v), ".", "0">>

\* int(hashlib.md5(text).hexdigest(), 16): the digest of a text, kept
\* symbolic (two texts have the same digest only when they are equal)
Md5(text) == <<"md5(">> \o text \o <<")">>

\* a < b as sorted compares two elements; "TypeError" when the two are not
\* orderable
IsNumber(x) == x.t \in {"int", "float"}

\* position of a one-character string in the order of characters
CharRank(c) ==
    CHOOSE i \in 0..(BASE - 1) :
        SymbolAt(i) = c /\ \A j \in 0..(i - 1) : SymbolAt(j) # c

Orderable(a, b) ==
    \/ IsNumber(a) /\ IsNumber(b)
    \/ a.t = "str" /\ b.t = "str"

\* for numbers and one-character strings
LessThan(a, b) ==
    IF IsNumber(a) THEN a.v < b.v ELSE CharRank(a.s[1]) < CharRank(b.s[1])

\* sorted(items) of pairwise orderable items: a stable sort, the items that
\* compare equal keep their order
RECURSIVE InsertSorted(_, _)
InsertSorted(sorted, x) ==
    IF sorted = <<>> THEN <<x>>
    ELSE IF LessThan(x, sorted[Len(sorted)])
    THEN Append(InsertSorted(SubSeq(sorted, 1, Len(sorted) - 1), x),
                sorted[Len(sorted)])
    ELSE Append(sorted, x)

RECURSIVE StableSort(_)
StableSort(items) ==
    IF items = <<>> THEN <<>>
    ELSE InsertSorted(StableSort(SubSeq(items, 1, Len(items) - 1)),
                      items[Len(items)])

\* lines 80-83: sorted(obj), or obj itself when sorted raises TypeError
SortedOrSame(items) ==
    IF \A i, j \in 1..Len(items) : i # j => Orderable(items[i], items[j])
    THEN StableSort(items) ELSE items

\* sorted(obj.keys()) for one-character keys: the items by key
RECURSIVE InsertByKey(_, _)
InsertByKey(sorted, kv) ==
    IF sorted = <<>> THEN <<kv>>
    ELSE IF CharRank(kv[1][1]) < CharRank(sorted[Len(sorted)][1][1])
    THEN Append(InsertByKey(SubSeq(sorted, 1, Len(sorted) - 1), kv),
                sorted[Len(sorted)])
    ELSE Append(sorted, kv)

RECURSIVE SortByKey(_)
SortByKey(items) ==
    IF items = <<>> THEN <<>>
    ELSE InsertByKey(SortByKey(SubSeq(items, 1, Len(items) - 1)),
                     items[Len(items)])

\* json.dumps(outobj, sort_keys=True) of a list of hashes, and of a mapping
\* from keys to hashes (items sorted by key)
RECURSIVE JoinHashes(_)
JoinHashes(hs) ==
    IF hs = <<>> THEN <<>>
    ELSE IF Len(hs) = 1 THEN hs[1]
    ELSE hs[1] \o <<",">> \o JoinHashes(Tail(hs))

JsonOfList(hs) == <<"[">> \o JoinHashes(hs) \o <<"]">>

JsonOfDict(keys, hs) ==
    <<"{">> \o JoinHashes([i \in 1..Len(hs) |-> keys[i] \o <<":">> \o hs[i]])
            \o <<"}">>

HashOk(h) == [err |-> "", h |-> h]
HashRaises == [err |-> "TypeError", h |-> <<>>]

\* hash_obj(obj, ignore_unhashable): the hash, or TypeError.  The calls for
\* the values of a mapping (line 77) and for the elements of a sequence
\* (line 83) pass no ignore_unhashable.
RECURSIVE hash_obj(_, _)
hash_obj(obj, ignore_unhashable) ==
    IF IsNumber(obj) THEN HashOk(Md5(StrOfNumber(obj)))
    ELSE IF obj.t = "none" THEN HashOk(Md5(<<"n", "u", "l", "l">>))
    ELSE IF obj.t = "str" THEN HashOk(Md5(obj.s))
    ELSE IF obj.t = "dict"
    THEN LET kvs == SortByKey(obj.items)
             hs == [i \in 1..Len(kvs) |-> hash_obj(kvs[i][2], FALSE)]
         IN  IF \E i \in 1..Len(hs) : hs[i].err # "" THEN HashRaises
             ELSE HashOk(Md5(JsonOfDict([i \in 1..Len(kvs) |-> kvs[i][1]],
                                        [i \in 1..Len(hs) |-> hs[i].h])))
    ELSE IF obj.t = "list"
    THEN LET sorted_obj == SortedOrSame(obj.items)
             hs == [i \in 1..Len(sorted_obj) |-> hash_obj(sorted_obj[i], FALSE)]
         IN  IF \E i \in 1..Len(hs) : hs[i].err # "" THEN HashRaises
             ELSE HashOk(Md5(JsonOfList([i \in 1..Len(hs) |-> hs[i].h])))
    ELSE IF ignore_unhashable THEN HashOk(<<"0">>)
    ELSE HashRaises

\* the values hashed: scalars, lists of scalars, mappings from one-character
\* keys to scalars, and one more level of nesting
Scalars ==
    {IntV(1), FloatV(1), IntV(2), StrV(<<"1">>), StrV(<<"b">>), NoneV, ObjV}

SeqsOver(S) == UNION {[1..n -> S] : n \in 0..MaxLen}

Lists == {ListV(items) : items \in SeqsOver(Scalars)}

Keys == {<<"a">>, <<"b">>}

Dicts ==
    {DictV(items) :
        items \in {kvs \in SeqsOver(Keys \X Scalars) :
                     \A i, j \in 1..Len(kvs) : i # j => kvs[i][1] # kvs[j][1]}}

Nested ==
    {ListV(<<x>>) : x \in Lists \cup Dicts}
      \cup {DictV(<< <<k, x>> >>) : k \in Keys, x \in Lists}

HashValues == Scalars \cup Lists \cup Dicts \cup Nested

\* b holds the items of a in another order
IsPermutation(a, b) ==
    /\ Len(a) = Len(b)
    /\ \E f \in [1..Len(a) -> 1..Len(a)] :
          /\ \A i, j \in 1..Len(a) : i # j => f[i] # f[j]
          /\ \A i \in 1..Len(a) : b[i] = a[f[i]]

\* two lists, or two mappings, with the same items in two orders
HashPairInputs ==
    {[op |-> "hash_pair", x |-> xy[1], y |-> xy[2]] :
        xy \in {pr \in (Lists \X Lists) \cup (Dicts \X Dicts) :
                  IsPermutation(pr[1].items, pr[2].items)}}

HashInputs == [op : {"hash"}, obj : HashValues, ignore_unhashable : BOOLEAN]

\* hash_obj(x) and hash_obj(y)
ApplyHashPair ==
    /\ inp \in HashPairInputs
    /\ outp = NoOutp
    /\ outp' = [op |-> "hash_pair",
                x |-> hash_obj(inp.x, FALSE), y |-> hash_obj(inp.y, FALSE)]
    /\ UNCHANGED <<inp, cvars>>

\* hash_obj(obj, ignore_unhashable)
ApplyHash ==
    /\ inp \in HashInputs
    /\ outp = NoOutp
    /\ outp' = [op |-> "hash",
                res |-> hash_obj(inp.obj, inp.ignore_unhashable)]
    /\ UNCHANGED <<inp, cvars>>

HashInit ==
    /\ Decorated(DefaultDeco)
    /\ inp \in CompactInputs \cup HashPairInputs \cup HashInputs
    /\ outp = NoOutp

HashNext == ApplyCompact64 \/ ApplyHashPair \/ ApplyHash

HashSpec == HashInit /\ [][HashNext]_vars

\* the items of a list are pairwise orderable
PairwiseOrderable(items) ==
    \A i, j \in 1..Len(items) : i # j => Orderable(items[i], items[j])

\* C16 as stated: two mappings with the same items hash identically
\* whatever the insertion order, and a list of pairwise orderable elements
\* hashes identically to each of its permutations, also when elements that
\* compare equal are distinct values (1 and 1.0).
C16_HashOrderIndependent ==
    (outp.op = "hash_pair"
       /\ (inp.x.t = "list" => PairwiseOrderable(inp.x.items)))
    => outp.x = outp.y

\* obj is, or contains in a list or a mapping, an object without canonical
\* form
RECURSIVE ContainsUnhashable(_)
ContainsUnhashable(obj) ==
    IF obj.t = "object" THEN TRUE
    ELSE IF obj.t = "list"
    THEN \E i \in 1..Len(obj.items) : ContainsUnhashable(obj.items[i])
    ELSE IF obj.t = "dict"
    THEN \E i \in 1..Len(obj.items) : ContainsUnhashable(obj.items[i][2])
    ELSE FALSE

\* C17 as stated: hash_obj raises for a value that is or contains an
\* unhashable object, unless ignore_unhashable is true: then it does not
\* raise, and an unhashable object hashes to 0.
C17_UnhashableRaisesUnlessIgnored ==
    (outp.op = "hash" /\ ContainsUnhashable(inp.obj))
    => IF inp.ignore_unhashable
       THEN /\ outp.res.err = ""
            /\ inp.obj = ObjV => outp.res.h = <<"0">>
       ELSE outp.res.err = "TypeError"

\* C24: when the first positional argument of a call has a cachedir
\* attribute, its value is the cache directory of the call, whatever the
\* cachedir keyword and the decoration-time cachedir are (a value that is
\* not a directory, such as None, makes the call bypass the cache); without
\* such an attribute the keyword is used when passed, and the
\* decoration-time value otherwise.
C24_AttributeTakesPrecedence ==
    outp.op = "resolve"
    => LET expected ==
               IF inp.args.n > 0 /\ inp.args.attr # {}
               THEN CHOOSE v \in inp.args.attr : TRUE
               ELSE IF inp.kw.cachedir # {}
               THEN CHOOSE v \in inp.kw.cachedir : TRUE
               ELSE inp.d.cachedir
       IN  /\ outp.effective.cachedir = expected
           /\ IF Truthy(expected)
              THEN outp.call.bypass # "nodir" /\ outp.call.dir = expected
              ELSE outp.call.bypass = "nodir"

\* a call whose first argument has the attribute, made with another
\* directory as keyword
C24_Witness ==
    /\ outp.op = "resolve"
    /\ inp.args.attr = {D1}
    /\ inp.kw.cachedir = {D2}
    /\ inp.d.cachedir = NoneVal
    /\ outp.call.bypass = ""
    /\ outp.call.dir = D1

\* C26: whichever path a call takes, the keywords the wrapped function
\* receives hold none of the caching options the caller passed.
C26_NoCachingOptionForwarded ==
    outp.op \in {"resolve", "path"} => outp.forwarded = {}

\* the last call of caller p was made with invalidate=True, found a complete
\* cache file, ran the wrapped function, which returned, and raised
\* afterwards: the new result was not stored
FailedToReplace(p) ==
    /\ Caching(p) /\ cfg[p].invalidate
    /\ cfg[p].path \in DOMAIN pre[p].files
    /\ pre[p].files[cfg[p].path].complete
    /\ Executed(p)
    /\ ret[p].kind = "raise" /\ ret[p].err # "MethodError"

\* the file of the last call of caller p is as it was before the call
OldEntryKept(p) ==
    /\ cfg[p].path \in DOMAIN files
    /\ files[cfg[p].path] = pre[p].files[cfg[p].path]

MaxData == 4

\* the function object line 36 binds to combine_func
Lambda == <<"<lambda>">>

\* a combine_func given by the caller, applied to a batch
Combined(batch) == <<"combined">> \o batch

\* line 36: combine_func = lambda x: x if combine_func is None else
\* combine_func.  The assignment: whatever the caller gave, the local
\* variable combine_func holds the lambda afterwards.
BoundCombineFunc(given) == Lambda

\* line 36, the body of the lambda: the conditional expression is evaluated
\* when the lambda is called, with the value bound holds by then
CombineFunc(bound, x) == IF bound = NoneVal THEN x ELSE bound

\* line 39: len(accumulator) == batch_data compares an int with the
\* iterable of the data, which are never equal
FlushTest(accumulator, batch_data, batch_size) == FALSE

\* lines 38-45: the loop over batch_data; calls are the arguments apply_func
\* has received so far
RECURSIVE BatchLoop(_, _, _, _, _, _)
BatchLoop(rest, accumulator, calls, batch_data, batch_size, bound) ==
    IF rest = <<>> THEN [accumulator |-> accumulator, calls |-> calls]
    ELSE IF FlushTest(accumulator, batch_data, batch_size)
    THEN BatchLoop(Tail(rest), <<Head(rest)>>,
                   Append(calls, CombineFunc(bound, accumulator)),
                   batch_data, batch_size, bound)
    ELSE BatchLoop(Tail(rest), Append(accumulator, Head(rest)), calls,
                   batch_data, batch_size, bound)

\* lines 34-49: the arguments apply_func receives, in order
batch_func(batch_data, batch_size, combine_func) ==
    LET bound == BoundCombineFunc(combine_func)
        loop == BatchLoop(batch_data, <<>>, <<>>, batch_data, batch_size, bound)
    IN  IF Len(loop.accumulator) > 0
        THEN Append(loop.calls, CombineFunc(bound, loop.accumulator))
        ELSE loop.calls

RECURSIVE DataOfLength(_)
DataOfLength(n) ==
    IF n = 0 THEN {<<>>}
    ELSE {Append(d, x) : d \in DataOfLength(n - 1), x \in {"a", "b"}}

BatchInputs ==
    [op : {"batch"},
     batch_data : UNION {DataOfLength(n) : n \in 0..MaxData},
     batch_size : 1..MaxData,
     combine_func : {NoneVal, <<"combine">>}]

ApplyBatch ==
    /\ inp \in BatchInputs
    /\ outp = NoOutp
    /\ outp' = [op |-> "batch",
                calls |-> batch_func(inp.batch_data, inp.batch_size,
                                     inp.combine_func)]
    /\ UNCHANGED <<inp, cvars>>

BatchInit ==
    /\ Decorated(DefaultDeco)
    /\ inp \in BatchInputs
    /\ outp = NoOutp

BatchNext == ApplyBatch

BatchSpec == BatchInit /\ [][BatchNext]_vars

\* the batches of data: consecutive slices of size elements, the last one
\* with what is left
RECURSIVE Batches(_, _)
Batches(data, size) ==
    IF Len(data) = 0 THEN <<>>
    ELSE IF Len(data) <= size THEN <<data>>
    ELSE <<SubSeq(data, 1, size)>> \o Batches(SubSeq(data, size + 1, Len(data)), size)

\* C23: apply_func is applied once per batch, the batches being the
\* consecutive slices of batch_size elements of batch_data (the last one may
\* be smaller), each passed through combine_func when one is given and as
\* is when combine_func is None.
C23_OneCallPerBatch ==
    outp.op = "batch"
    => LET expected == Batches(inp.batch_data, inp.batch_size)
       IN  /\ Len(outp.calls) = Len(expected)
           /\ \A i \in 1..Len(expected) :
                 outp.calls[i] = IF inp.combine_func = NoneVal THEN expected[i]
                                 ELSE Combined(expected[i])

\* ------------------------------------------------------------------------
\* elastic.EsClient with cache='diskcache'
\* ------------------------------------------------------------------------

\* self.cachedir, the subfolder of the request of the model (line 189-190),
\* and the cache file of that request for the method search (lines 196-199)
EsCachedir == <<"c", "a", "c", "h", "e">>
EsSubdir == PathJoin(EsCachedir, <<"2", "v">>)
EsFile == PathJoin(EsSubdir, <<"e", "s", "-", "s", "e", "a", "r", "c", "h", "-", "k",
                               ".", "c", "a", "c", "h", "e", ".", "g", "z", "i", "p">>)

\* what Elasticsearch answers to the request
EsResults == {L1, L2}

\* _configure_cache wraps search twice: lines 83-86 assign
\* _diskcache_wapper(self.search), and lines 92-95 wrap the result again with
\* cache_decorator.  The wrapper called by the user is the outer one; the
\* method it calls is the inner one, whose method is the request itself.
\* Both have the name search (functools.wraps), hence the same cache file.
EsLevels == {"outer", "inner"}

\* the positions of a caller in a wrapper of a level
EsAt ==
    [outer |-> [subdir |-> "outer_subdir", makedirs |-> "outer_makedirs",
                check |-> "outer_check", read |-> "outer_read",
                sleep |-> "outer_sleep", method |-> "inner_subdir",
                open |-> "outer_open", write |-> "outer_write"],
     inner |-> [subdir |-> "inner_subdir", makedirs |-> "inner_makedirs",
                check |-> "inner_check", read |-> "inner_read",
                sleep |-> "inner_sleep", method |-> "request",
                open |-> "inner_open", write |-> "inner_write"]]

\* line 183: invalidate = kwargs.pop('invalidate', False); the outer wrapper
\* pops the keyword of the call, so the inner one never finds it
EsInvalidate(lv, c) == IF lv = "outer" THEN c.invalidate ELSE FALSE

\* what a call of search resolves: the path of its cache file, json through
\* gzip, and the invalidate keyword of the caller
EsConfig(invalidate) ==
    [bypass |-> "", dir |-> EsSubdir, invalidate |-> invalidate,
     cb_miss |-> "id", cb_hit |-> "id", fmt |-> S_json, gz |-> TRUE,
     path |-> EsFile]

\* lines 182-190: a call of client.search(...), with or without
\* invalidate=True
EsCall(p, invalidate) ==
    /\ pc[p] = "idle"
    /\ ncalls < MaxCalls
    /\ ncalls' = ncalls + 1
    /\ cfg' = [cfg EXCEPT ![p] = EsConfig(invalidate)]
    /\ pc' = [pc EXCEPT ![p] = EsAt["outer"].subdir]
    /\ log' = [log EXCEPT ![p] = <<>>]
    /\ ret' = [ret EXCEPT ![p] = NoRet]
    /\ pend' = [pend EXCEPT ![p] = NoPend]
    /\ pre' = [pre EXCEPT ![p] = [dirs |-> dirs, files |-> files]]
    /\ stderr' = [stderr EXCEPT ![p] = <<>>]
    /\ UNCHANGED <<dirs, files, deco, prev, inp, outp>>

\* line 191: os.path.exists(cache_subdir)
EsCheckSubdir(p, lv) ==
    /\ pc[p] = EsAt[lv].subdir
    /\ Logged(p, "exists_dir")
    /\ pc' = [pc EXCEPT ![p] = IF cfg[p].dir \in dirs THEN EsAt[lv].check
                               ELSE EsAt[lv].makedirs]
    /\ UNCHANGED <<dirs, files, deco, cfg, pend, ret, prev, pre, ncalls, stderr,
                   inp, outp>>

\* line 192: os.makedirs(cache_subdir)
EsMakeDirs(p, lv) ==
    /\ pc[p] = EsAt[lv].makedirs
    /\ IF cfg[p].dir \in dirs
       THEN /\ Logged(p, "makedirs_failed")
            /\ Finish(p, Raise("FileExistsError", cfg[p].dir))
            /\ UNCHANGED dirs
       ELSE /\ Logged(p, "makedirs")
            /\ dirs' = dirs \cup {cfg[p].dir}
            /\ pc' = [pc EXCEPT ![p] = EsAt[lv].check]
            /\ UNCHANGED ret
    /\ UNCHANGED <<files, deco, cfg, pend, prev, pre, ncalls, stderr,
                   inp, outp>>

\* line 201: os.path.exists(fp) and not invalidate; the else branch calls
\* method(*args, **kwargs)
EsCheck(p, lv) ==
    /\ pc[p] = EsAt[lv].check
    /\ Logged(p, "exists_file")
    /\ pc' = [pc EXCEPT ![p] =
                IF cfg[p].path \in DOMAIN files /\ ~EsInvalidate(lv, cfg[p])
                THEN EsAt[lv].read ELSE EsAt[lv].method]
    /\ UNCHANGED <<dirs, files, deco, cfg, pend, ret, prev, pre, ncalls, stderr,
                   inp, outp>>

\* The loop of _saferead may run any number of times: the log and the
\* messages of a call keep one record of a step or message that repeats
LoggedOnce(p, op) ==
    log' = [log EXCEPT ![p] = IF Did(p, op) THEN @ ELSE Append(@, op)]

PrintedOnce(p, msg) ==
    stderr' = [stderr EXCEPT ![p] =
                 IF \E i \in 1..Len(@) : @[i] = msg THEN @ ELSE Append(@, msg)]

\* a wrapper of level lv has its response resp: the inner wrapper returns
\* it to the outer one, which goes on to write it (lines 204-206); the outer
\* one returns it to the caller (line 208)
EsReturn(p, lv, resp) ==
    /\ pend' = [pend EXCEPT ![p].raw = resp]
    /\ IF lv = "inner"
       THEN pc' = [pc EXCEPT ![p] = EsAt["outer"].open] /\ UNCHANGED ret
       ELSE Finish(p, Return(resp))

\* A read that gives up at the first decode error and returns None
SafeReadOutcome_GivesUp(fs, path) ==
    IF path \notin DOMAIN fs THEN Raise("FileNotFoundError", path)
    ELSE IF ~fs[path].gz THEN Raise("BadGzipFile", path)
    ELSE LET x == JsonLoads(fs[path].bytes)
         IN  IF x.ok THEN Return(x.val) ELSE Return(NoneVal)

\* lines 171-175, one pass of the loop of _saferead: gzip.open(fp, 'rb'),
\* f.read(), json.loads.  An empty file reads as the empty string, which is
\* a JSONDecodeError like any other text that is not JSON; that error alone
\* is caught (NoRet: the loop goes on), any other one propagates.
SafeReadOutcome(fs, path) ==
    IF path \notin DOMAIN fs THEN Raise("FileNotFoundError", path)
    ELSE IF ~fs[path].gz THEN Raise("BadGzipFile", path)
    ELSE LET x == JsonLoads(fs[path].bytes)
         IN  IF x.ok THEN Return(x.val) ELSE NoRet

EsRead(p, lv) ==
    /\ pc[p] = EsAt[lv].read
    /\ LET o == SafeReadOutcome(files, cfg[p].path)
       IN  IF o.kind = "none"
           THEN /\ LoggedOnce(p, "read_failed")
                /\ pc' = [pc EXCEPT ![p] = EsAt[lv].sleep]
                /\ PrintedOnce(p, <<"None">>)
                /\ UNCHANGED <<pend, ret>>
           ELSE IF o.kind = "raise"
           THEN /\ Logged(p, "read_raised")
                /\ Finish(p, o)
                /\ UNCHANGED <<pend, stderr>>
           ELSE /\ Logged(p, "read")
                /\ EsReturn(p, lv, o.val)
                /\ UNCHANGED stderr
    /\ UNCHANGED <<dirs, files, deco, cfg, prev, pre, ncalls, inp, outp>>

\* lines 176-177 and 170: time.sleep(self.safesleep_timer), then the loop
\* tests has_read and reads again
EsSleep(p, lv) ==
    /\ pc[p] = EsAt[lv].sleep
    /\ LoggedOnce(p, "sleep")
    /\ pc' = [pc EXCEPT ![p] = EsAt[lv].read]
    /\ UNCHANGED <<dirs, files, deco, cfg, pend, ret, prev, pre, ncalls, stderr,
                   inp, outp>>

\* line 204 in the inner wrapper: the request goes to Elasticsearch, which
\* answers r or raises
EsRequest(p, r, raises) ==
    /\ pc[p] = EsAt["inner"].method
    /\ Logged(p, "exec")
    /\ IF raises
       THEN Finish(p, Raise("MethodError", <<>>)) /\ UNCHANGED pend
       ELSE /\ pend' = [pend EXCEPT ![p].raw = r]
            /\ pc' = [pc EXCEPT ![p] = EsAt["inner"].open]
            /\ UNCHANGED ret
    /\ UNCHANGED <<dirs, files, deco, cfg, prev, pre, ncalls, stderr,
                   inp, outp>>

\* line 205: gzip.open(fp, 'wb') creates or truncates the file, or fails
EsOpen(p, lv, ok) ==
    /\ pc[p] = EsAt[lv].open
    /\ IF ok
       THEN /\ files' = PutFile(files, cfg[p].path, EmptyFile(TRUE))
            /\ Logged(p, "open_w")
            /\ pc' = [pc EXCEPT ![p] = EsAt[lv].write]
            /\ UNCHANGED ret
       ELSE /\ Logged(p, "open_w_failed")
            /\ Finish(p, Raise("OSError", cfg[p].path))
            /\ UNCHANGED files
    /\ UNCHANGED <<dirs, deco, cfg, pend, prev, pre, ncalls, stderr,
                   inp, outp>>

\* line 206: f.write(json.dumps(resp).encode('utf-8')) and the end of the
\* with block; there is no except clause, a failed write leaves the file
EsWrite(p, lv, ok) ==
    /\ pc[p] = EsAt[lv].write
    /\ LET d == JsonDumps(pend[p].raw)
       IN  IF d.ok /\ ok
           THEN /\ files' = AfterWrite(files, cfg[p].path,
                                       FileOf(TRUE, d.bytes, TRUE))
                /\ Logged(p, "write")
                /\ EsReturn(p, lv, pend[p].raw)
           ELSE /\ Logged(p, "write_failed")
                /\ Finish(p, Raise(IF d.ok THEN "OSError" ELSE "TypeError",
                                   cfg[p].path))
                /\ UNCHANGED <<files, pend>>
    /\ UNCHANGED <<dirs, deco, cfg, prev, pre, ncalls, stderr,
                   inp, outp>>

\* Another client that shares the cache directory is in lines 204-206 for
\* the same request: it opens the file, and later writes its response
OtherOpen(path) ==
    /\ path = EsFile
    /\ path \in DOMAIN files => files[path].complete
    /\ files' = PutFile(files, path, EmptyFile(TRUE))
    /\ dirs' = dirs \cup {EsSubdir}
    /\ UNCHANGED <<deco, pc, cfg, pend, log, ret, prev, pre, ncalls, stderr,
                   inp, outp>>

OtherWrite(path, r) ==
    /\ path \in DOMAIN files
    /\ ~files[path].complete
    /\ files' = AfterWrite(files, path, FileOf(TRUE, JsonDumps(r).bytes, TRUE))
    /\ UNCHANGED <<dirs, deco, pc, cfg, pend, log, ret, prev, pre, ncalls,
                   stderr, inp, outp>>

\* the steps of a caller inside a call of search
EsRun(p) ==
    \/ \E lv \in EsLevels : EsCheckSubdir(p, lv)
    \/ \E lv \in EsLevels : EsMakeDirs(p, lv)
    \/ \E lv \in EsLevels : EsCheck(p, lv)
    \/ \E lv \in EsLevels : EsRead(p, lv)
    \/ \E lv \in EsLevels : EsSleep(p, lv)
    \/ \E r \in EsResults, raises \in BOOLEAN : EsRequest(p, r, raises)
    \/ \E lv \in EsLevels, ok \in BOOLEAN : EsOpen(p, lv, ok)
    \/ \E lv \in EsLevels, ok \in BOOLEAN : EsWrite(p, lv, ok)

EsNext ==
    \/ \E p \in SeqProcs, invalidate \in BOOLEAN : EsCall(p, invalidate)
    \/ \E p \in SeqProcs : EsRun(p)
    \/ \E path \in {EsFile} : OtherOpen(path)
    \/ \E path \in {EsFile}, r \in EsResults : OtherWrite(path, r)

EsInit ==
    /\ Decorated(DefaultDeco)
    /\ inp = NoInp
    /\ outp = NoOutp

\* a caller inside a call keeps running: the loop of _saferead is not
\* suspended for ever, time.sleep returns
EsSpec ==
    EsInit /\ [][EsNext]_vars /\ \A p \in SeqProcs : WF_vars(EsRun(p))

\* caller p is in the loop of _saferead
InSafeRead(p) == \E lv \in EsLevels : pc[p] \in {EsAt[lv].read, EsAt[lv].sleep}

\* the cache file is a gzip file whose content is not JSON (nothing has been
\* written since it was opened, for one)
Undecodable(path) ==
    /\ path \in DOMAIN files
    /\ files[path].gz
    /\ ~JsonLoads(files[path].bytes).ok

\* the cache file holds valid JSON
Decodable(path) ==
    /\ path \in DOMAIN files
    /\ files[path].gz
    /\ JsonLoads(files[path].bytes).ok

\* one pass of the loop of _saferead by caller p: a read that finds the
\* content undecodable returns nothing, changes no file and is followed by
\* the sleep; a read that finds valid JSON ends the loop with the decoded
\* content; the sleep is followed by another read
SafeReadPass(p) ==
    \A lv \in EsLevels :
        /\ (pc[p] = EsAt[lv].read /\ pc'[p] # pc[p] /\ Undecodable(cfg[p].path))
           => /\ pc'[p] = EsAt[lv].sleep
              /\ ret'[p] = NoRet /\ pend'[p] = pend[p]
              /\ files' = files
        /\ (pc[p] = EsAt[lv].read /\ pc'[p] # pc[p] /\ Decodable(cfg[p].path))
           => /\ ~InSafeRead(p)'
              /\ pend'[p].raw = JsonLoads(files[cfg[p].path].bytes).val
              /\ lv = "outer" => ret'[p] = Return(pend'[p].raw)
        /\ (pc[p] = EsAt[lv].sleep /\ pc'[p] # pc[p])
           => pc'[p] = EsAt[lv].read /\ ret'[p] = NoRet

\* C25: _saferead reads again, after a sleep, for as long as the content of
\* the file fails to decode as JSON, and does not return meanwhile; it
\* returns the decoded content once it reads valid JSON, and it does so
\* eventually if a writer leaves valid JSON in the file for good.
C25_SafeReadRetriesUntilDecodable ==
    /\ [][\A p \in SeqProcs : SafeReadPass(p)]_vars
    /\ \A p \in SeqProcs : (<>[]Decodable(EsFile)) => []<>(~InSafeRead(p))

\* a call that found the file opened by another writer and not written yet,
\* slept, read again and returned what the writer wrote
C25_Witness ==
    \E p \in SeqProcs :
        /\ Done(p) /\ ret[p].kind = "return"
        /\ Did(p, "read_failed") /\ Did(p, "sleep") /\ Did(p, "read")
        /\ ~Executed(p)
        /\ ret[p].val \in EsResults

\* the call of caller p returns in this step
EsReturns(p) == pc[p] # "idle" /\ pc'[p] = "idle" /\ ret'[p].kind = "return"

\* C29: a call of search made with invalidate=True while a cache file for
\* its arguments exists sends the request to Elasticsearch, and when it
\* returns the cache file holds the response of that request.
C29_InvalidateSendsRequest ==
    [][\A p \in SeqProcs :
          (/\ EsReturns(p)
           /\ cfg[p].invalidate
           /\ cfg[p].path \in DOMAIN pre[p].files
           /\ pre[p].files[cfg[p].path].complete)
          => /\ Executed(p)
             /\ cfg[p].path \in DOMAIN files'
             /\ files'[cfg[p].path] =
                   FileOf(TRUE, JsonDumps(ret'[p].val).bytes, TRUE)]_vars
====
